---- MODULE Spec2Model ----
(***************************************************************************)
(* Model of the dataset-preparation pipeline of ml-inventory-counter:      *)
(*   src/src/prepare_dataset.py  (Dataset Preparer)                        *)
(*   src/train/utils.py          (Annotation Counter)                      *)
(* Text is a sequence of one-character strings, a file name is a pair      *)
(* <<base, extension>>, a defaultdict(int) is a function whose DOMAIN is   *)
(* the set of keys it holds.                                               *)
(***************************************************************************)
EXTENDS Integers, Sequences, FiniteSets, TLC

(***************************************************************************)
(* Text: str.strip, str.split, int                                         *)
(***************************************************************************)
Whitespace == {" ", "\t", "\n"}

DigitChars == {"0", "1", "2", "3", "4", "5", "6", "7", "8", "9"}

DigitVal(c) ==
    CASE c = "0" -> 0 [] c = "1" -> 1 [] c = "2" -> 2 [] c = "3" -> 3
      [] c = "4" -> 4 [] c = "5" -> 5 [] c = "6" -> 6 [] c = "7" -> 7
      [] c = "8" -> 8 [] c = "9" -> 9

\* str.strip(): the text without its leading and trailing whitespace
RECURSIVE StripLeft(_)
StripLeft(s) ==
    IF s = <<>> THEN <<>>
    ELSE IF Head(s) \in Whitespace THEN StripLeft(Tail(s)) ELSE s

RECURSIVE StripRight(_)
StripRight(s) ==
    IF s = <<>> THEN <<>>
    ELSE IF s[Len(s)] \in Whitespace THEN StripRight(SubSeq(s, 1, Len(s) - 1)) ELSE s

Strip(s) == StripRight(StripLeft(s))

\* str.split() with no separator: the maximal runs of non-whitespace
RECURSIVE SplitFrom(_, _, _)
SplitFrom(s, cur, acc) ==
    IF s = <<>> THEN (IF cur = <<>> THEN acc ELSE Append(acc, cur))
    ELSE IF Head(s) \in Whitespace
         THEN SplitFrom(Tail(s), <<>>, IF cur = <<>> THEN acc ELSE Append(acc, cur))
         ELSE SplitFrom(Tail(s), Append(cur, Head(s)), acc)

Split(s) == SplitFrom(s, <<>>, <<>>)

\* the value of a run of decimal digits
RECURSIVE DigitsValue(_, _)
DigitsValue(ds, acc) ==
    IF ds = <<>> THEN acc ELSE DigitsValue(Tail(ds), 10 * acc + DigitVal(Head(ds)))

\* int(token): an optional sign and at least one digit, anything else raises ValueError
ParseInt(tok) ==
    LET signed == tok # <<>> /\ Head(tok) \in {"+", "-"}
        ds     == IF signed THEN Tail(tok) ELSE tok
        ok     == ds # <<>> /\ \A i \in 1..Len(ds) : ds[i] \in DigitChars
    IN  [ok  |-> ok,
         val |-> IF ~ok THEN 0
                 ELSE IF signed /\ Head(tok) = "-" THEN 0 - DigitsValue(ds, 0)
                 ELSE DigitsValue(ds, 0)]

(***************************************************************************)
(* Configuration                                                           *)
(***************************************************************************)
CLASS_NAMES == <<"carrot", "bean", "radish">>

\* a well-formed annotation line has at least this many fields
MinFields == 5

(***************************************************************************)
(* defaultdict(int)                                                        *)
(***************************************************************************)
EmptyDict == [k \in {} |-> 0]

\* slip: d[k] = 1 in place of d[k] += 1
DictIncrAssigns(d, k) ==
    IF k \in DOMAIN d THEN [d EXCEPT ![k] = 1] ELSE d @@ (k :> 1)

\* d[k] += 1 on a defaultdict(int): a missing key starts at 0
DictIncr(d, k) ==
    IF k \in DOMAIN d THEN [d EXCEPT ![k] = @ + 1] ELSE d @@ (k :> 1)

\* d[k] read on a defaultdict(int): 0 for a missing key, which the read inserts
DictGet(d, k) == IF k \in DOMAIN d THEN d[k] ELSE 0

DictTouch(d, k) == IF k \in DOMAIN d THEN d ELSE d @@ (k :> 0)

(***************************************************************************)
(* Line validation of the Dataset Preparer (copy_and_count_annotation)     *)
(***************************************************************************)
\* slip: the field test lets a line of four fields through
CountLineFourFields(line, class_names_list, dict) ==
    LET parts == Split(Strip(line)) IN
    IF Len(parts) < MinFields - 1
    THEN [outcome |-> "malformed", dict |-> dict]
    ELSE LET class_id == ParseInt(parts[1]) IN
         IF ~class_id.ok
         THEN [outcome |-> "raise", dict |-> dict]
         ELSE IF 0 <= class_id.val /\ class_id.val < Len(class_names_list)
              THEN [outcome |-> "counted",
                    dict    |-> DictIncr(dict, class_names_list[class_id.val + 1])]
              ELSE [outcome |-> "out_of_range", dict |-> dict]

\* slip: the four geometry fields are converted to numbers inside the try
CountLineChecksGeometry(line, class_names_list, dict) ==
    LET parts == Split(Strip(line)) IN
    IF Len(parts) < MinFields
    THEN [outcome |-> "malformed", dict |-> dict]
    ELSE LET class_id == ParseInt(parts[1]) IN
         IF ~class_id.ok \/ \E j \in 2..5 : \E k \in 1..Len(parts[j]) :
                                parts[j][k] \notin DigitChars \cup {"."}
         THEN [outcome |-> "raise", dict |-> dict]
         ELSE IF 0 <= class_id.val /\ class_id.val < Len(class_names_list)
              THEN [outcome |-> "counted",
                    dict    |-> DictIncr(dict, class_names_list[class_id.val + 1])]
              ELSE [outcome |-> "out_of_range", dict |-> dict]

\* one turn of the counting loop: the line's outcome and the dictionary after it
CountLine(line, class_names_list, dict) ==
    LET parts == Split(Strip(line)) IN
    IF Len(parts) < MinFields
    THEN [outcome |-> "malformed", dict |-> dict]
    ELSE LET class_id == ParseInt(parts[1]) IN
         IF ~class_id.ok
         THEN [outcome |-> "raise", dict |-> dict]
         ELSE IF 0 <= class_id.val /\ class_id.val < Len(class_names_list)
              THEN [outcome |-> "counted",
                    dict    |-> DictIncr(dict, class_names_list[class_id.val + 1])]
              ELSE [outcome |-> "out_of_range", dict |-> dict]

\* the counting loop over the lines read from a label file; it stops at the
\* first line whose class id raises, keeping the increments made so far.
\* log: for each line looked at, its outcome and the dictionary after it
RECURSIVE CountLines(_, _, _, _)
\* after the line with result r: the exception leaves the loop, anything else
\* goes on with the lines that remain
CountOn(r, rest, class_names_list, log) ==
    IF r.outcome = "raise"
    THEN [raised |-> TRUE, dict |-> r.dict, log |-> Append(log, r)]
    ELSE CountLines(rest, class_names_list, r.dict, Append(log, r))

CountLines(lines, class_names_list, dict, log) ==
    IF lines = <<>> THEN [raised |-> FALSE, dict |-> dict, log |-> log]
    ELSE CountOn(CountLine(Head(lines), class_names_list, dict),
                 Tail(lines), class_names_list, log)

(***************************************************************************)
(* Line validation of the Annotation Counter (process_single_label_file)   *)
(***************************************************************************)
\* slip: class_id <= len(class_names_list), so that the id len(class_names_list)
\* indexes past the table and raises IndexError
ProcessLineInclusiveBound(line, class_names_list, counts_dict) ==
    LET parts == Split(Strip(line)) IN
    IF Len(parts) >= MinFields
    THEN LET class_id == ParseInt(parts[1]) IN
         IF ~class_id.ok \/ class_id.val = Len(class_names_list)
         THEN [outcome |-> "raise", dict |-> counts_dict, objects |-> 0]
         ELSE IF 0 <= class_id.val /\ class_id.val < Len(class_names_list)
              THEN [outcome |-> "counted",
                    dict    |-> DictIncr(counts_dict, class_names_list[class_id.val + 1]),
                    objects |-> 1]
              ELSE [outcome |-> "out_of_range", dict |-> counts_dict, objects |-> 0]
    ELSE [outcome |-> "malformed", dict |-> counts_dict, objects |-> 0]

\* slip: objects_in_file += 1 stands before the range test
ProcessLineCountsEveryId(line, class_names_list, counts_dict) ==
    LET parts == Split(Strip(line)) IN
    IF Len(parts) >= MinFields
    THEN LET class_id == ParseInt(parts[1]) IN
         IF ~class_id.ok
         THEN [outcome |-> "raise", dict |-> counts_dict, objects |-> 0]
         ELSE IF 0 <= class_id.val /\ class_id.val < Len(class_names_list)
              THEN [outcome |-> "counted",
                    dict    |-> DictIncr(counts_dict, class_names_list[class_id.val + 1]),
                    objects |-> 1]
              ELSE [outcome |-> "out_of_range", dict |-> counts_dict, objects |-> 1]
    ELSE [outcome |-> "malformed", dict |-> counts_dict, objects |-> 0]

ProcessLine(line, class_names_list, counts_dict) ==
    LET parts == Split(Strip(line)) IN
    IF Len(parts) >= MinFields
    THEN LET class_id == ParseInt(parts[1]) IN
         IF ~class_id.ok
         THEN [outcome |-> "raise", dict |-> counts_dict, objects |-> 0]
         ELSE IF 0 <= class_id.val /\ class_id.val < Len(class_names_list)
              THEN [outcome |-> "counted",
                    dict    |-> DictIncr(counts_dict, class_names_list[class_id.val + 1]),
                    objects |-> 1]
              ELSE [outcome |-> "out_of_range", dict |-> counts_dict, objects |-> 0]
    ELSE [outcome |-> "malformed", dict |-> counts_dict, objects |-> 0]

\* the whole function: the exception of a line ends the reading, the counts
\* and the objects found so far are kept and returned.
\* log: for each line looked at, its outcome, the dictionary and objects_in_file after it
RECURSIVE ProcessLines(_, _, _, _, _)
\* slip: the try is inside the loop, so the exception of a line costs that line only
ProcessOnKeepsReading(r, rest, class_names_list, objects_in_file, log) ==
    ProcessLines(rest, class_names_list, r.dict,
                 objects_in_file + r.objects,
                 Append(log, [r EXCEPT !.objects = objects_in_file + r.objects]))

\* after the line with result r
ProcessOn(r, rest, class_names_list, objects_in_file, log) ==
    IF r.outcome = "raise"
    THEN [dict |-> r.dict, objects |-> objects_in_file,
          log |-> Append(log, [r EXCEPT !.objects = objects_in_file])]
    ELSE ProcessLines(rest, class_names_list, r.dict,
                      objects_in_file + r.objects,
                      Append(log, [r EXCEPT !.objects = objects_in_file + r.objects]))

ProcessLines(lines, class_names_list, counts_dict, objects_in_file, log) ==
    IF lines = <<>>
    THEN [dict |-> counts_dict, objects |-> objects_in_file, log |-> log]
    ELSE ProcessOn(ProcessLine(Head(lines), class_names_list, counts_dict),
                   Tail(lines), class_names_list, objects_in_file, log)

process_single_label_file(lines, class_names_list, counts_dict) ==
    ProcessLines(lines, class_names_list, counts_dict, 0, <<>>)

(***************************************************************************)
(* Building annotation lines                                               *)
(***************************************************************************)
RECURSIVE JoinFields(_)
JoinFields(fs) ==
    IF fs = <<>> THEN <<>>
    ELSE IF Len(fs) = 1 THEN Head(fs)
    ELSE Head(fs) \o <<" ">> \o JoinFields(Tail(fs))

\* a line as readlines() returns it
MakeLine(fs) == JoinFields(fs) \o <<"\n">>

Geo == <<"0", ".", "5">>

ValidLine(c)   == MakeLine(<<c, Geo, Geo, Geo, Geo>>)
ShortLine      == MakeLine(<<(<<"1">>), Geo>>)
OutOfRangeLine == MakeLine(<<(<<"3">>), Geo, Geo, Geo, Geo>>)
UnparsableLine == MakeLine(<<(<<"x">>), Geo, Geo, Geo, Geo>>)

(***************************************************************************)
(* File names and the file system                                          *)
(***************************************************************************)
\* str.lower() on the extensions of the model
Lower(ext) ==
    CASE ext = ".JPG"  -> ".jpg"
      [] ext = ".JPEG" -> ".jpeg"
      [] ext = ".PNG"  -> ".png"
      [] ext = ".TXT"  -> ".txt"
      [] OTHER         -> ext

\* os.path.splitext(f)[0]
BaseName(name) == name[1]

\* f.lower().endswith(('.jpg', '.jpeg', '.png'))
IsImageName(name) == Lower(name[2]) \in {".jpg", ".jpeg", ".png"}

\* label_filename.endswith('.txt')
IsLabelName(name) == name[2] = ".txt"

ExportSplits == {"train", "validation"}

\* the output split an export split is written to
OutputSplit(esplit) == IF esplit = "train" THEN "train" ELSE "val"

OutputDirs ==
    {<<"train", "images">>, <<"train", "labels">>, <<"val", "images">>, <<"val", "labels">>}

NoOutput == [exists |-> FALSE, dirs |-> {}, labels |-> {}, images |-> {}, yaml |-> {}]

VARIABLES
    rawExists,      \* RAW_IMAGES_DIR exists
    rawFiles,       \* its files: records [name, data]
    labelDir,       \* export split -> [exists, files], files: records [name, lines]
    copyFails,      \* the source paths shutil.copy raises on
    out,            \* the tree under OUTPUT_DATA_DIR
    pc,             \* position of the run in prepare_dataset
    todo,           \* label files of the current split not yet iterated
    all_raw_images_basenames,
    raw_images_full_paths,
    train_image_count,
    val_image_count,
    skipped_image_count,
    total_objects_per_class,
    labelsRead,     \* the label files opened by this run
    summary,        \* the summaries printed by this run
    runs,           \* one record per finished run, oldest first
    lnFile,         \* line validation alone: the lines of one label file,
    lnTable,        \*   the class table,
    lnStart,        \*   the counts before the file is read,
    lnPrep,         \*   what copy_and_count_annotation made of it,
    lnCtr,          \*   what process_single_label_file made of it
    ctrPc,          \* position of the Annotation Counter
    ctrTodo,        \* label files of the current split it has not yet read
    train_counts,
    val_counts,
    total_train_objects,
    total_val_objects,
    overall_counts, \* <<>> while the local is unbound, <<dict>> once assigned
    ctrScanned,     \* export split -> the files handed to process_single_label_file
    report,         \* what the Annotation Counter has printed
    rootOf,         \* two preparer processes: the output root of each,
    trees,          \*   the tree under each output root,
    local,          \*   the local variables of each
    previousOutput, \* the tree under OUTPUT_DATA_DIR when the current run began
    max_retries,    \* predict_with_retry: its argument,
    attempt,        \*   the loop variable,
    rtPc,           \*   its position,
    sent,           \*   the reply to each POST it has made, oldest first,
    rtResult,       \*   how the call ended
    uploaded_file,  \* front end: the value of the file_uploader widget,
    original_image, \*   st.session_state.original_image,
    predictions,    \*   st.session_state.predictions,
    visibility_toggles, \* st.session_state.visibility_toggles,
    last_uploaded_name, \* st.session_state.last_uploaded_name,
    predicted_from, \*   the image that was sent for the stored predictions,
    shown,          \*   what the results view drew in the last script run
    rawTree,        \* flattening script: the files under data/raw,
    splitDirs,      \*   the split directories that exist,
    flPc,           \*   its position,
    split_type,     \*   the loop variable of line 14,
    flTodo,         \*   the entries of the current split not yet visited,
    raw_images,     \*   the files under raw_images/,
    copies,         \*   every copy it has made, oldest first
    request,        \* POST /predict: the upload and what the environment does with it,
    apiPc,          \*   the position of the handler,
    apiLocal,       \*   its local variables,
    response        \*   the HTTP response it gives

fsVars   == <<rawExists, rawFiles, labelDir, copyFails>>
progVars == <<pc, todo, all_raw_images_basenames, raw_images_full_paths,
              train_image_count, val_image_count, skipped_image_count,
              total_objects_per_class, labelsRead, summary>>
prepVars == <<fsVars, out, progVars, runs>>
lineVars == <<lnFile, lnTable, lnStart, lnPrep, lnCtr>>
ctrVars  == <<ctrPc, ctrTodo, train_counts, val_counts, total_train_objects,
              total_val_objects, overall_counts, ctrScanned, report>>
twoVars  == <<rootOf, trees, local>>
histVars == <<previousOutput>>
retryVars == <<max_retries, attempt, rtPc, sent, rtResult>>
uiVars   == <<uploaded_file, original_image, predictions, visibility_toggles,
              last_uploaded_name, predicted_from, shown>>
flatVars == <<rawTree, splitDirs, flPc, split_type, flTodo, raw_images, copies>>
apiVars  == <<request, apiPc, apiLocal, response>>
extVars  == <<retryVars, uiVars, flatVars, apiVars>>
vars     == <<prepVars, histVars, lineVars, ctrVars, twoVars, extVars>>

(***************************************************************************)
(* prepare_dataset, step 1: the destructive reset of the output directory  *)
(***************************************************************************)
\* slip: the old tree is left in place
RmTreeKeeps(o) == o

\* shutil.rmtree(OUTPUT_DATA_DIR) when it exists
RmTree(o) == NoOutput

\* os.makedirs(path, exist_ok=True)
MakeDirs(o, d) == [o EXCEPT !.exists = TRUE, !.dirs = @ \cup {d}]

\* slip: the raw-images directory is looked at first, and the reset is reached
\* only when the listing succeeded
CleanedOutputAfterListing(o) ==
    IF rawExists
    THEN MakeDirs(MakeDirs(MakeDirs(MakeDirs(NoOutput, <<"train", "images">>),
                                    <<"train", "labels">>), <<"val", "images">>),
                  <<"val", "labels">>)
    ELSE o

CleanedOutput(o) ==
    LET o0 == IF o.exists THEN RmTree(o) ELSE o
        o1 == MakeDirs(o0, <<"train", "images">>)
        o2 == MakeDirs(o1, <<"train", "labels">>)
        o3 == MakeDirs(o2, <<"val", "images">>)
    IN  MakeDirs(o3, <<"val", "labels">>)

(***************************************************************************)
(* copy_and_count_annotation                                               *)
(***************************************************************************)
\* shutil.copy(src, os.path.join(dir, basename)) of a label file
CopyLabel(o, osplit, label) ==
    [o EXCEPT !.labels = {l \in @ : ~(l.split = osplit /\ l.name = label.name)}
                         \cup {[split |-> osplit, name |-> label.name, lines |-> label.lines]}]

\* slip: the image is stored under its lower-cased name
CopyImageLowerCased(o, osplit, img) ==
    [o EXCEPT !.images = {i \in @ : ~(i.split = osplit /\ i.name = img.name)}
                         \cup {[split |-> osplit, name |-> <<img.name[1], Lower(img.name[2])>>,
                                data |-> img.data]}]

CopyImage(o, osplit, img) ==
    [o EXCEPT !.images = {i \in @ : ~(i.split = osplit /\ i.name = img.name)}
                         \cup {[split |-> osplit, name |-> img.name, data |-> img.data]}]

\* the copy raises when the source cannot be copied or the target directory is gone
CopyRaises(o, src, dir) == src \in copyFails \/ dir \notin o.dirs

\* slip: a failed copy of the image is passed over and the file reported as processed
CopyBothIgnoresImageCopy(counted, img, esplit, label, osplit, o) ==
    IF counted.raised
    THEN [ret |-> FALSE, dict |-> counted.dict, out |-> o, trace |-> counted.log]
    ELSE IF CopyRaises(o, <<esplit, label.name>>, <<osplit, "labels">>)
    THEN [ret |-> FALSE, dict |-> counted.dict, out |-> o, trace |-> counted.log]
    ELSE IF CopyRaises(CopyLabel(o, osplit, label), <<"raw", img.name>>, <<osplit, "images">>)
    THEN [ret |-> TRUE, dict |-> counted.dict, out |-> CopyLabel(o, osplit, label),
          trace |-> counted.log]
    ELSE [ret |-> TRUE, dict |-> counted.dict,
          out |-> CopyImage(CopyLabel(o, osplit, label), osplit, img),
          trace |-> counted.log]

\* the rest of the try block once the lines have been counted: an exception
\* of the counting or of either copy is caught and False returned, the label
\* copy made before a failing image copy stays
CopyBoth(counted, img, esplit, label, osplit, o) ==
    IF counted.raised
    THEN [ret |-> FALSE, dict |-> counted.dict, out |-> o, trace |-> counted.log]
    ELSE IF CopyRaises(o, <<esplit, label.name>>, <<osplit, "labels">>)
    THEN [ret |-> FALSE, dict |-> counted.dict, out |-> o, trace |-> counted.log]
    ELSE IF CopyRaises(CopyLabel(o, osplit, label), <<"raw", img.name>>, <<osplit, "images">>)
    THEN [ret |-> FALSE, dict |-> counted.dict, out |-> CopyLabel(o, osplit, label),
          trace |-> counted.log]
    ELSE [ret |-> TRUE, dict |-> counted.dict,
          out |-> CopyImage(CopyLabel(o, osplit, label), osplit, img),
          trace |-> counted.log]

\* slip: the counts are made on a copy that is merged only when the file is accepted
CopyAndCountRollsBack(img, esplit, label, osplit, class_names_list, dict, o) ==
    [CopyBoth(CountLines(label.lines, class_names_list, dict, <<>>),
              img, esplit, label, osplit, o)
        EXCEPT !.dict = IF CopyBoth(CountLines(label.lines, class_names_list, dict, <<>>),
                                    img, esplit, label, osplit, o).ret
                        THEN @ ELSE dict]

copy_and_count_annotation(img, esplit, label, osplit, class_names_list, dict, o) ==
    CopyBoth(CountLines(label.lines, class_names_list, dict, <<>>),
             img, esplit, label, osplit, o)

(***************************************************************************)
(* prepare_dataset: the body of the loop over one split's label files      *)
(***************************************************************************)
\* slip: the else of line 72 is missing, skipped_image_count += 1 runs for every file
TallyAlwaysSkipped(r, esplit, label) ==
    [accepted |-> IF r.ret THEN 1 ELSE 0,
     skipped  |-> 1,
     dict     |-> r.dict,
     out      |-> r.out,
     read     |-> {<<esplit, label.name>>}]

\* the counters after copy_and_count_annotation returned r
Tally(r, esplit, label) ==
    [accepted |-> IF r.ret THEN 1 ELSE 0,
     skipped  |-> IF r.ret THEN 0 ELSE 1,
     dict     |-> r.dict,
     out      |-> r.out,
     read     |-> {<<esplit, label.name>>}]

\* slip: a label file without image is passed over without being counted as skipped
LoopBodyUncounted(esplit, label, basenames, full_paths, dict, o) ==
    IF ~IsLabelName(label.name) \/ BaseName(label.name) \notin basenames
    THEN [accepted |-> 0, skipped |-> 0, dict |-> dict, out |-> o, read |-> {}]
    ELSE Tally(copy_and_count_annotation(full_paths[BaseName(label.name)], esplit, label,
                                         OutputSplit(esplit), CLASS_NAMES, dict, o),
               esplit, label)

\* what one label file adds: accepted and skipped are 0 or 1
LoopBody(esplit, label, basenames, full_paths, dict, o) ==
    IF ~IsLabelName(label.name)
    THEN [accepted |-> 0, skipped |-> 0, dict |-> dict, out |-> o, read |-> {}]
    ELSE IF BaseName(label.name) \notin basenames
    THEN [accepted |-> 0, skipped |-> 1, dict |-> dict, out |-> o, read |-> {}]
    ELSE Tally(copy_and_count_annotation(full_paths[BaseName(label.name)], esplit, label,
                                         OutputSplit(esplit), CLASS_NAMES, dict, o),
               esplit, label)

\* slip: a split is listed only when both label directories exist
ListLabelsBothRequired(esplit) ==
    IF \A s \in ExportSplits : labelDir[s].exists THEN labelDir[esplit].files ELSE {}

\* os.listdir of a split's label directory once os.path.exists has been checked
ListLabels(esplit) == IF labelDir[esplit].exists THEN labelDir[esplit].files ELSE {}

(***************************************************************************)
(* prepare_dataset as a state machine                                      *)
(***************************************************************************)
\* the sequential runs of the preparer that are followed
MaxRuns == 2

Manifest ==
    [path |-> "data", train |-> "train/images", val |-> "val/images",
     nc |-> Len(CLASS_NAMES), names |-> CLASS_NAMES]

\* the record kept of a run when it ends
RunRecord(outcome, o, dict, printed) ==
    [outcome |-> outcome, out |-> o, train |-> train_image_count,
     val |-> val_image_count, skipped |-> skipped_image_count,
     total |-> dict, summary |-> printed, read |-> labelsRead]

\* lines 20-27
CleanOutput ==
    /\ pc = "start"
    /\ out' = CleanedOutput(out)
    /\ previousOutput' = out
    /\ pc' = "clean"
    /\ UNCHANGED <<fsVars, todo, all_raw_images_basenames, raw_images_full_paths,
                   train_image_count, val_image_count, skipped_image_count,
                   total_objects_per_class, labelsRead, summary, runs, lineVars, extVars, ctrVars, twoVars>>

\* slip: a missing directory is listed as an empty one
RawListingNeverRaises == FALSE

\* os.listdir(RAW_IMAGES_DIR) raises FileNotFoundError when the directory is missing
RawListingRaises == ~rawExists

\* lines 32-53: nothing catches the exception of os.listdir; otherwise the
\* counters start at zero and the train loop begins
LoadRawImages ==
    /\ pc = "clean"
    /\ IF RawListingRaises
       THEN /\ pc' = "aborted"
            /\ runs' = Append(runs, RunRecord("aborted", out, total_objects_per_class, summary))
            /\ UNCHANGED <<todo, all_raw_images_basenames, raw_images_full_paths,
                           train_image_count, val_image_count, skipped_image_count,
                           total_objects_per_class>>
       ELSE /\ all_raw_images_basenames' =
                   {BaseName(f.name) : f \in {g \in rawFiles : IsImageName(g.name)}}
            /\ raw_images_full_paths' =
                   [b \in {BaseName(f.name) : f \in {g \in rawFiles : IsImageName(g.name)}} |->
                       CHOOSE f \in rawFiles : IsImageName(f.name) /\ BaseName(f.name) = b]
            /\ train_image_count' = 0
            /\ val_image_count' = 0
            /\ skipped_image_count' = 0
            /\ total_objects_per_class' = EmptyDict
            /\ todo' = ListLabels("train")
            /\ pc' = "train"
            /\ UNCHANGED runs
    /\ UNCHANGED <<fsVars, out, labelsRead, summary, lineVars, histVars, extVars, ctrVars, twoVars>>

\* the per-class counter handed to copy_and_count_annotation for a split's files
CounterOf(esplit) == total_objects_per_class

\* lines 54-73, one label file of the train split
ProcessTrainLabel ==
    /\ pc = "train"
    /\ \E label \in todo :
          \E r \in {LoopBody("train", label, all_raw_images_basenames,
                              raw_images_full_paths, total_objects_per_class, out)} :
              /\ todo' = todo \ {label}
              /\ train_image_count' = train_image_count + r.accepted
              /\ skipped_image_count' = skipped_image_count + r.skipped
              /\ total_objects_per_class' = r.dict
              /\ out' = r.out
              /\ labelsRead' = labelsRead \cup r.read
    /\ UNCHANGED <<fsVars, pc, all_raw_images_basenames, raw_images_full_paths,
                   val_image_count, summary, runs, lineVars, histVars, extVars, ctrVars, twoVars>>

\* lines 76-78: the train loop is over, the validation loop begins
EnterValidation ==
    /\ pc = "train"
    /\ todo = {}
    /\ todo' = ListLabels("validation")
    /\ pc' = "val"
    /\ UNCHANGED <<fsVars, out, all_raw_images_basenames, raw_images_full_paths,
                   train_image_count, val_image_count, skipped_image_count,
                   total_objects_per_class, labelsRead, summary, runs, lineVars, histVars, extVars, ctrVars, twoVars>>

\* lines 78-97, one label file of the validation split
ProcessValLabel ==
    /\ pc = "val"
    /\ \E label \in todo :
          \E r \in {LoopBody("validation", label, all_raw_images_basenames,
                              raw_images_full_paths, total_objects_per_class, out)} :
              /\ todo' = todo \ {label}
              /\ val_image_count' = val_image_count + r.accepted
              /\ skipped_image_count' = skipped_image_count + r.skipped
              /\ total_objects_per_class' = r.dict
              /\ out' = r.out
              /\ labelsRead' = labelsRead \cup r.read
    /\ UNCHANGED <<fsVars, pc, all_raw_images_basenames, raw_images_full_paths,
                   train_image_count, summary, runs, lineVars, histVars, extVars, ctrVars, twoVars>>

\* lines 99-105: the printed summary; reading the defaultdict inserts the classes it lacks
RECURSIVE TouchAll(_, _)
TouchAll(d, names) ==
    IF names = <<>> THEN d ELSE TouchAll(DictTouch(d, Head(names)), Tail(names))

\* slip: the loop of line 102 goes over the classes that were counted
SummaryOfCountedClasses(dict) ==
    [train |-> train_image_count, val |-> val_image_count,
     skipped |-> skipped_image_count,
     per_class |-> SelectSeq([i \in 1..Len(CLASS_NAMES) |->
                                 <<CLASS_NAMES[i], DictGet(dict, CLASS_NAMES[i])>>],
                             LAMBDA e : e[1] \in DOMAIN dict)]

SummaryOf(dict) ==
    [train |-> train_image_count, val |-> val_image_count,
     skipped |-> skipped_image_count,
     per_class |-> [i \in 1..Len(CLASS_NAMES) |-> <<CLASS_NAMES[i], DictGet(dict, CLASS_NAMES[i])>>]]

\* slip: the early return is missing
WriteManifestAlways(o, accepted) == [o EXCEPT !.yaml = {Manifest}]

\* lines 107-121: data.yaml is written unless no image was accepted
WriteManifest(o, accepted) ==
    IF accepted = 0 THEN o ELSE [o EXCEPT !.yaml = {Manifest}]

\* lines 99-124
Summarize ==
    /\ pc = "val"
    /\ todo = {}
    /\ LET dict    == TouchAll(total_objects_per_class, CLASS_NAMES)
           printed == Append(summary, SummaryOf(total_objects_per_class))
           o       == WriteManifest(out, train_image_count + val_image_count)
       IN  /\ total_objects_per_class' = dict
           /\ summary' = printed
           /\ out' = o
           /\ runs' = Append(runs, RunRecord("done", o, dict, printed))
    /\ pc' = "done"
    /\ UNCHANGED <<fsVars, todo, all_raw_images_basenames, raw_images_full_paths,
                   train_image_count, val_image_count, skipped_image_count,
                   labelsRead, lineVars, histVars, extVars, ctrVars, twoVars>>

\* the script is started again on the same file system
NextRun ==
    /\ pc \in {"done", "aborted"}
    /\ Len(runs) < MaxRuns
    /\ pc' = "start"
    /\ todo' = {}
    /\ all_raw_images_basenames' = {}
    /\ raw_images_full_paths' = EmptyDict
    /\ train_image_count' = 0
    /\ val_image_count' = 0
    /\ skipped_image_count' = 0
    /\ total_objects_per_class' = EmptyDict
    /\ labelsRead' = {}
    /\ summary' = <<>>
    /\ UNCHANGED <<fsVars, out, runs, lineVars, histVars, extVars, ctrVars, twoVars>>

(***************************************************************************)
(* The file systems a run is started on                                    *)
(***************************************************************************)
\* the images RAW_IMAGES_DIR may hold, and the file it always holds that is no image
RawCandidates ==
    {[name |-> <<"a", ".jpg">>, data |-> "pixels_a"],
     [name |-> <<"b", ".PNG">>, data |-> "pixels_b"]}

RawOther == {[name |-> <<"a", ".gif">>, data |-> "anim_a"]}

RawListings == {R \cup RawOther : R \in SUBSET RawCandidates}

\* the names a split's label directory may hold
LabelNames(esplit) ==
    IF esplit = "train" THEN {<<"a", ".txt">>, <<"b", ".txt">>, <<"a", ".json">>}
    ELSE {<<"b", ".txt">>}

\* the contents of a label file
LabelContents ==
    {<<>>,
     <<ValidLine(<<"1">>)>>,
     <<ValidLine(<<"0">>), ValidLine(<<"2">>)>>,
     <<ShortLine, ValidLine(<<"0">>)>>,
     <<OutOfRangeLine, ValidLine(<<"1">>)>>,
     <<UnparsableLine, ValidLine(<<"1">>)>>,
     <<ValidLine(<<"2">>), UnparsableLine>>}

OtherText == <<MakeLine(<<(<<"{", "}">>)>>)>>

ContentsOf(name) == IF IsLabelName(name) THEN LabelContents ELSE {OtherText}

\* the listings of a directory over the given names, each name at most once;
\* a name that is no label name is in every listing
FileSets(names) ==
    UNION {{{[name |-> n, lines |-> c[n]] : n \in S} :
              c \in {d \in [S -> LabelContents \cup {OtherText}] :
                        \A n \in S : d[n] \in ContentsOf(n)}} :
           S \in {T \in SUBSET names : \A n \in names : ~IsLabelName(n) => n \in T}}

DirStates(names) ==
    {[exists |-> FALSE, files |-> {}]} \cup {[exists |-> TRUE, files |-> F] : F \in FileSets(names)}

\* the sources shutil.copy may be asked to copy: the images and the label files
Sources(raw, dirs) ==
    {<<"raw", f.name>> : f \in {g \in raw : IsImageName(g.name)}}
        \cup UNION {{<<s, f.name>> : f \in {g \in dirs[s].files : IsLabelName(g.name)}} :
                     s \in ExportSplits}

\* at most this many sources fail to copy
MaxFaults == 1

\* what a previous use left under OUTPUT_DATA_DIR
StaleOutput ==
    [exists |-> TRUE,
     dirs   |-> {<<"train", "images">>, <<"test", "images">>},
     labels |-> {[split |-> "val", name |-> <<"z", ".txt">>, lines |-> <<ShortLine>>]},
     images |-> {[split |-> "train", name |-> <<"z", ".jpg">>, data |-> "pixels_z"]},
     yaml   |-> {[path |-> "data", train |-> "train/images", val |-> "val/images",
                  nc |-> 2, names |-> <<"carrot", "bean">>]}]

LineIdle ==
    /\ lnFile = <<>>
    /\ lnTable = <<>>
    /\ lnStart = EmptyDict
    /\ lnPrep = <<>>
    /\ lnCtr = <<>>

NoReport ==
    [train_total |-> 0, train_lines |-> <<>>, val_total |-> 0, val_lines |-> <<>>,
     overall_total |-> 0, overall_lines |-> <<>>, progress |-> <<>>, verdict |-> "none"]

CtrIdle ==
    /\ ctrPc = "off"
    /\ ctrTodo = {}
    /\ train_counts = EmptyDict
    /\ val_counts = EmptyDict
    /\ total_train_objects = 0
    /\ total_val_objects = 0
    /\ overall_counts = <<>>
    /\ ctrScanned = [s \in ExportSplits |-> {}]
    /\ report = NoReport

TwoIdle ==
    /\ rootOf = <<>>
    /\ trees = <<>>
    /\ local = <<>>

RetryIdle ==
    /\ max_retries = 0
    /\ attempt = 0
    /\ rtPc = "off"
    /\ sent = <<>>
    /\ rtResult = <<>>

SessionIdle ==
    /\ uploaded_file = <<>>
    /\ original_image = <<>>
    /\ predictions = <<>>
    /\ visibility_toggles = <<>>
    /\ last_uploaded_name = <<>>
    /\ predicted_from = <<>>
    /\ shown = <<>>

FlattenIdle ==
    /\ rawTree = {}
    /\ splitDirs = {}
    /\ flPc = "off"
    /\ split_type = ""
    /\ flTodo = {}
    /\ raw_images = <<>>
    /\ copies = {}

ApiIdle ==
    /\ request = <<>>
    /\ apiPc = "off"
    /\ apiLocal = <<>>
    /\ response = <<>>

\* the programs that a specification does not follow stay as they are
ExtIdle ==
    /\ RetryIdle
    /\ SessionIdle
    /\ FlattenIdle
    /\ ApiIdle

\* the label directories of the two export splits
LabelDirs ==
    {[s \in ExportSplits |-> IF s = "train" THEN t ELSE v] :
        t \in DirStates(LabelNames("train")), v \in DirStates(LabelNames("validation"))}

\* the raw-images directory: missing, or one of its listings
RawDirs ==
    {[exists |-> FALSE, files |-> {}]} \cup {[exists |-> TRUE, files |-> R] : R \in RawListings}

\* the file systems a run may be started on
FileSystems ==
    UNION {{[raw |-> r, dirs |-> d, fails |-> F] :
               F \in {G \in SUBSET Sources(r.files, d) : Cardinality(G) <= MaxFaults}} :
           r \in RawDirs, d \in LabelDirs}

Init ==
    /\ \E fs \in FileSystems :
          /\ rawExists = fs.raw.exists
          /\ rawFiles = fs.raw.files
          /\ labelDir = fs.dirs
          /\ copyFails = fs.fails
    /\ out \in {NoOutput, StaleOutput}
    /\ pc = "start"
    /\ todo = {}
    /\ all_raw_images_basenames = {}
    /\ raw_images_full_paths = EmptyDict
    /\ train_image_count = 0
    /\ val_image_count = 0
    /\ skipped_image_count = 0
    /\ total_objects_per_class = EmptyDict
    /\ labelsRead = {}
    /\ summary = <<>>
    /\ runs = <<>>
    /\ previousOutput = NoOutput
    /\ LineIdle
    /\ CtrIdle
    /\ TwoIdle
    /\ ExtIdle

Next ==
    \/ CleanOutput
    \/ LoadRawImages
    \/ ProcessTrainLabel
    \/ EnterValidation
    \/ ProcessValLabel
    \/ Summarize
    \/ NextRun

Spec == Init /\ [][Next]_vars

(***************************************************************************)
(* Line validation alone: one label file read by both functions            *)
(***************************************************************************)
\* the longest line, in fields
MaxFields == 6

FirstFields ==
    {<<"0">>, <<"1">>, <<"2">>, <<"3">>, <<"1", "0">>, <<"-", "1">>, <<"+", "1">>,
     <<"x">>, <<"1", ".", "0">>}

OtherFields == {Geo, <<"b", "a", "d">>}

\* a line in the layout of the export, or indented and separated by tabs
Layout(fs, padded) ==
    IF padded
    THEN <<" ", " ">> \o
         [i \in 1..Len(JoinFields(fs)) |->
             IF JoinFields(fs)[i] = " " THEN "\t" ELSE JoinFields(fs)[i]] \o <<" ", "\n">>
    ELSE MakeLine(fs)

\* lines of 0..MaxFields fields
TestLines ==
    {Layout(<<>>, p) : p \in BOOLEAN}
        \cup {Layout([i \in 1..n |-> IF i = 1 THEN f ELSE g], p) :
                 f \in FirstFields, g \in OtherFields, n \in 1..MaxFields, p \in BOOLEAN}

\* a line alone, or between lines that count
TestFiles ==
    {pre \o <<l>> \o post :
        l \in TestLines,
        pre \in {<<>>, <<ValidLine(<<"0">>)>>},
        post \in {<<>>, <<ValidLine(<<"1">>)>>}}

\* the class tables: CLASS_NAMES and its prefixes
TestTables == {SubSeq(CLASS_NAMES, 1, n) : n \in 0..Len(CLASS_NAMES)}

TestStarts == {EmptyDict, ("carrot" :> 2), ("bean" :> 1) @@ ("radish" :> 3)}

TestImage == [name |-> <<"a", ".jpg">>, data |-> "pixels_a"]

TestLabel == [name |-> <<"a", ".txt">>, lines |-> lnFile]

PrepIdle ==
    /\ rawExists = FALSE
    /\ rawFiles = {}
    /\ labelDir = [s \in ExportSplits |-> [exists |-> FALSE, files |-> {}]]
    /\ copyFails = {}
    /\ out = NoOutput
    /\ pc = "off"
    /\ todo = {}
    /\ all_raw_images_basenames = {}
    /\ raw_images_full_paths = EmptyDict
    /\ train_image_count = 0
    /\ val_image_count = 0
    /\ skipped_image_count = 0
    /\ total_objects_per_class = EmptyDict
    /\ labelsRead = {}
    /\ summary = <<>>
    /\ runs = <<>>

InitLines ==
    /\ PrepIdle
    /\ lnFile \in TestFiles
    /\ lnTable \in TestTables
    /\ lnStart \in TestStarts
    /\ lnPrep = <<>>
    /\ lnCtr = <<>>
    /\ CtrIdle
    /\ TwoIdle
    /\ previousOutput = NoOutput
    /\ ExtIdle

\* copy_and_count_annotation on the file, into a freshly reset output directory
ReadByPreparer ==
    /\ lnPrep = <<>>
    /\ lnPrep' = <<copy_and_count_annotation(TestImage, "train", TestLabel, "train",
                                             lnTable, lnStart, CleanedOutput(NoOutput))>>
    /\ UNCHANGED <<prepVars, lnFile, lnTable, lnStart, lnCtr, ctrVars, twoVars, histVars, extVars>>

\* process_single_label_file on the file
ReadByCounter ==
    /\ lnCtr = <<>>
    /\ lnCtr' = <<process_single_label_file(lnFile, lnTable, lnStart)>>
    /\ UNCHANGED <<prepVars, lnFile, lnTable, lnStart, lnPrep, ctrVars, twoVars, histVars, extVars>>

NextLines == ReadByPreparer \/ ReadByCounter

SpecLines == InitLines /\ [][NextLines]_vars

(***************************************************************************)
(* The Annotation Counter: count_annotations_per_class_in_cvat_splits      *)
(***************************************************************************)
TARGET_INSTANCES_PER_CLASS == 50

\* slip: the file is opened with mode 'w'
OpenTruncates(dirs, esplit, f) ==
    [raised |-> <<esplit, f.name>> \in copyFails,
     dirs   |-> [dirs EXCEPT ![esplit].files = (@ \ {f}) \cup {[f EXCEPT !.lines = <<>>]}],
     lines  |-> <<>>]

\* open(file_path, 'r'): the directories as the call leaves them, the lines
\* of the file, and whether the call raises
OpenRead(dirs, esplit, f) ==
    [raised |-> <<esplit, f.name>> \in copyFails, dirs |-> dirs, lines |-> f.lines]

\* the result of process_single_label_file with the directories as they are left
Counted(r, dirs) == [dict |-> r.dict, objects |-> r.objects, dirs |-> dirs]

\* process_single_label_file on a path: the exception of open is caught like
\* that of a line, and objects_in_file is returned as it stands
CountFile(opened, class_names_list, counts_dict) ==
    IF opened.raised
    THEN [dict |-> counts_dict, objects |-> 0, dirs |-> opened.dirs]
    ELSE Counted(process_single_label_file(opened.lines, class_names_list, counts_dict),
                 opened.dirs)

\* [f for f in os.listdir(dir) if f.endswith('.txt')] inside os.path.exists(dir)
CtrListLabels(esplit) ==
    IF labelDir[esplit].exists
    THEN {f \in labelDir[esplit].files : IsLabelName(f.name)}
    ELSE {}

\* lines 25-28 and 37-38
CtrScanTrain ==
    /\ ctrPc = "start"
    /\ ctrTodo' = CtrListLabels("train")
    /\ ctrPc' = "train"
    /\ UNCHANGED <<prepVars, lineVars, histVars, extVars, twoVars, train_counts, val_counts,
                   total_train_objects, total_val_objects, overall_counts,
                   ctrScanned, report>>

\* lines 33-36, one label file of the train split
CtrProcessTrain ==
    /\ ctrPc = "train"
    /\ \E f \in ctrTodo :
          \E r \in {CountFile(OpenRead(labelDir, "train", f), CLASS_NAMES, train_counts)} :
              /\ ctrTodo' = ctrTodo \ {f}
              /\ train_counts' = r.dict
              /\ total_train_objects' = total_train_objects + r.objects
              /\ labelDir' = r.dirs
              /\ ctrScanned' = [ctrScanned EXCEPT !["train"] = @ \cup {f.name}]
    /\ UNCHANGED <<rawExists, rawFiles, copyFails, out, progVars, runs, lineVars, histVars, extVars, twoVars,
                   ctrPc, val_counts, total_val_objects, overall_counts, report>>

\* lines 40-43 and 52-53
CtrScanVal ==
    /\ ctrPc = "train"
    /\ ctrTodo = {}
    /\ ctrTodo' = CtrListLabels("validation")
    /\ ctrPc' = "val"
    /\ UNCHANGED <<prepVars, lineVars, histVars, extVars, twoVars, train_counts, val_counts,
                   total_train_objects, total_val_objects, overall_counts,
                   ctrScanned, report>>

\* lines 48-51, one label file of the validation split
CtrProcessVal ==
    /\ ctrPc = "val"
    /\ \E f \in ctrTodo :
          \E r \in {CountFile(OpenRead(labelDir, "validation", f), CLASS_NAMES, val_counts)} :
              /\ ctrTodo' = ctrTodo \ {f}
              /\ val_counts' = r.dict
              /\ total_val_objects' = total_val_objects + r.objects
              /\ labelDir' = r.dirs
              /\ ctrScanned' = [ctrScanned EXCEPT !["validation"] = @ \cup {f.name}]
    /\ UNCHANGED <<rawExists, rawFiles, copyFails, out, progVars, runs, lineVars, histVars, extVars, twoVars,
                   ctrPc, train_counts, total_train_objects, overall_counts, report>>

\* lines 59-64 and 67-72: the per-class lines of a split, printed when it has objects
SplitLines(total, counts) ==
    IF total = 0 THEN <<>>
    ELSE [i \in 1..Len(CLASS_NAMES) |-> <<CLASS_NAMES[i], DictGet(counts, CLASS_NAMES[i])>>]

\* lines 77-80: overall_counts is assigned only when there are objects
OverallCounts(total_objects_overall, tc, vc) ==
    IF total_objects_overall > 0
    THEN <<[c \in {CLASS_NAMES[i] : i \in 1..Len(CLASS_NAMES)} |-> DictGet(tc, c) + DictGet(vc, c)]>>
    ELSE <<>>

\* line 88 reads the local overall_counts: UnboundLocalError when it was never assigned
ProgressRaises(oc) == oc = <<>>

\* slip: the target is met only above it
TargetMetAbove(overall_count) == overall_count > TARGET_INSTANCES_PER_CLASS

\* line 89: the else branch of overall_count < TARGET_INSTANCES_PER_CLASS
TargetMet(overall_count) == ~(overall_count < TARGET_INSTANCES_PER_CLASS)

\* lines 87-93: per class, its name, whether its target is met, and its count
Progress(d) ==
    [i \in 1..Len(CLASS_NAMES) |->
        <<CLASS_NAMES[i], TargetMet(DictGet(d, CLASS_NAMES[i])), DictGet(d, CLASS_NAMES[i])>>]

\* lines 86-98: all_targets_met
Verdict(progress) ==
    IF \A i \in 1..Len(progress) : progress[i][2] THEN "all_met" ELSE "continue"

\* what lines 56-98 print when overall_counts is oc
ReportOf(oc) ==
    [train_total   |-> total_train_objects,
     train_lines   |-> SplitLines(total_train_objects, train_counts),
     val_total     |-> total_val_objects,
     val_lines     |-> SplitLines(total_val_objects, val_counts),
     overall_total |-> total_train_objects + total_val_objects,
     overall_lines |-> IF oc = <<>> THEN <<>>
                       ELSE [i \in 1..Len(CLASS_NAMES) |->
                                <<CLASS_NAMES[i], DictGet(oc[1], CLASS_NAMES[i])>>],
     progress      |-> IF ProgressRaises(oc) THEN <<>> ELSE Progress(oc[1]),
     verdict       |-> IF ProgressRaises(oc) THEN "none" ELSE Verdict(Progress(oc[1]))]

\* lines 55-98: the report; nothing catches the exception of line 88
CtrReport ==
    /\ ctrPc = "val"
    /\ ctrTodo = {}
    /\ \E oc \in {OverallCounts(total_train_objects + total_val_objects,
                                 train_counts, val_counts)} :
          /\ overall_counts' = oc
          /\ report' = ReportOf(oc)
          /\ ctrPc' = IF ProgressRaises(oc) THEN "crashed" ELSE "done"
          /\ train_counts' = IF oc = <<>> THEN train_counts
                              ELSE TouchAll(train_counts, CLASS_NAMES)
          /\ val_counts' = IF oc = <<>> THEN val_counts
                            ELSE TouchAll(val_counts, CLASS_NAMES)
    /\ UNCHANGED <<prepVars, lineVars, histVars, extVars, twoVars, ctrTodo, total_train_objects,
                   total_val_objects, ctrScanned>>

\* n lines for class id c
Repeat(c, n) == [i \in 1..n |-> ValidLine(c)]

\* the names a split's label directory may hold when the counter runs
CounterLabelNames(esplit) ==
    IF esplit = "train" THEN {<<"a", ".txt">>, <<"b", ".txt">>, <<"a", ".json">>}
    ELSE {<<"b", ".txt">>, <<"c", ".txt">>}

\* the contents of the label files the counter reads: around the target, and
\* with lines that do not count
CounterContents(esplit, name) ==
    IF ~IsLabelName(name) THEN {OtherText}
    ELSE IF esplit = "train" /\ BaseName(name) = "a"
    THEN {<<>>, <<ValidLine(<<"0">>)>>, Repeat(<<"0">>, TARGET_INSTANCES_PER_CLASS - 1),
          <<ValidLine(<<"2">>), UnparsableLine, ValidLine(<<"1">>)>>}
    ELSE IF esplit = "train"
    THEN {Repeat(<<"1">>, TARGET_INSTANCES_PER_CLASS), <<ShortLine, OutOfRangeLine>>}
    ELSE IF BaseName(name) = "b"
    THEN {<<>>, <<ValidLine(<<"0">>)>>, Repeat(<<"0">>, TARGET_INSTANCES_PER_CLASS - 1)}
    ELSE {Repeat(<<"2">>, TARGET_INSTANCES_PER_CLASS),
          Repeat(<<"2">>, TARGET_INSTANCES_PER_CLASS - 1)}

\* the listings of a split's label directory
CounterFileSets(esplit) ==
    UNION {{{[name |-> n, lines |-> c[n]] : n \in S} :
              c \in {d \in [S -> UNION {CounterContents(esplit, m) : m \in S}] :
                        \A n \in S : d[n] \in CounterContents(esplit, n)}} :
           S \in {T \in SUBSET CounterLabelNames(esplit) :
                     \A n \in CounterLabelNames(esplit) : ~IsLabelName(n) => n \in T}}

CounterDirStates(esplit) ==
    {[exists |-> FALSE, files |-> {}]}
        \cup {[exists |-> TRUE, files |-> F] : F \in CounterFileSets(esplit)}

CounterLabelDirs ==
    {[s \in ExportSplits |-> IF s = "train" THEN t ELSE v] :
        t \in CounterDirStates("train"), v \in CounterDirStates("validation")}

\* the label files that cannot be opened
Unreadable(dirs) ==
    {F \in SUBSET Sources({}, dirs) : Cardinality(F) <= MaxFaults}

InitCounter ==
    /\ rawExists = TRUE
    /\ rawFiles = RawCandidates \cup RawOther
    /\ labelDir \in CounterLabelDirs
    /\ copyFails \in Unreadable(labelDir)
    /\ out = StaleOutput
    /\ pc = "off"
    /\ todo = {}
    /\ all_raw_images_basenames = {}
    /\ raw_images_full_paths = EmptyDict
    /\ train_image_count = 0
    /\ val_image_count = 0
    /\ skipped_image_count = 0
    /\ total_objects_per_class = EmptyDict
    /\ labelsRead = {}
    /\ summary = <<>>
    /\ runs = <<>>
    /\ LineIdle
    /\ TwoIdle
    /\ previousOutput = NoOutput
    /\ ExtIdle
    /\ ctrPc = "start"
    /\ ctrTodo = {}
    /\ train_counts = EmptyDict
    /\ val_counts = EmptyDict
    /\ total_train_objects = 0
    /\ total_val_objects = 0
    /\ overall_counts = <<>>
    /\ ctrScanned = [s \in ExportSplits |-> {}]
    /\ report = NoReport

NextCounter ==
    \/ CtrScanTrain
    \/ CtrProcessTrain
    \/ CtrScanVal
    \/ CtrProcessVal
    \/ CtrReport

SpecCounter == InitCounter /\ [][NextCounter]_vars

(***************************************************************************)
(* Two runs of prepare_dataset at the same time, over the same inputs      *)
(***************************************************************************)
Procs == {1, 2}

\* the directories OUTPUT_DATA_DIR may resolve to, one per working directory
Roots == {"data1", "data2"}

\* slip: the output root is an absolute path, the same for every run
TreeRootHardCoded(p) == "data1"

\* OUTPUT_DATA_DIR, a path relative to the working directory of the run
TreeRoot(p) == rootOf[p]

\* lines 24-27
MakeAllDirs(o) ==
    MakeDirs(MakeDirs(MakeDirs(MakeDirs(o, <<"train", "images">>), <<"train", "labels">>),
                      <<"val", "images">>), <<"val", "labels">>)

\* line 32
RawBaseNames == {BaseName(f.name) : f \in {g \in rawFiles : IsImageName(g.name)}}

\* line 33
RawFullPaths ==
    [b \in RawBaseNames |-> CHOOSE f \in rawFiles : IsImageName(f.name) /\ BaseName(f.name) = b]

\* the local variables of a run that has not started
FreshLocal ==
    [pc |-> "start", todo |-> {}, basenames |-> {}, full_paths |-> EmptyDict,
     train |-> 0, val |-> 0, skipped |-> 0, total |-> EmptyDict,
     hit |-> FALSE, final |-> <<>>]

\* the run is between its own reset and its end
Underway(l) == l.pc \in {"rmtree", "clean", "train", "val"}

\* the other runs on the same root, under way: a reset of the root hits them
HitBy(p) == {q \in Procs \ {p} : TreeRoot(q) = TreeRoot(p) /\ Underway(local[q])}

\* lines 20-21: shutil.rmtree when the root exists
TwoRmTree(p) ==
    /\ local[p].pc = "start"
    /\ trees' = [trees EXCEPT ![TreeRoot(p)] = IF @.exists THEN RmTree(@) ELSE @]
    /\ local' = [q \in Procs |->
                    IF q = p THEN [local[q] EXCEPT !.pc = "rmtree"]
                    ELSE IF q \in HitBy(p) THEN [local[q] EXCEPT !.hit = TRUE]
                    ELSE local[q]]
    /\ UNCHANGED <<prepVars, lineVars, histVars, extVars, ctrVars, rootOf>>

\* lines 24-27: the four directories
TwoMakeDirs(p) ==
    /\ local[p].pc = "rmtree"
    /\ trees' = [trees EXCEPT ![TreeRoot(p)] = MakeAllDirs(@)]
    /\ local' = [local EXCEPT ![p].pc = "clean"]
    /\ UNCHANGED <<prepVars, lineVars, histVars, extVars, ctrVars, rootOf>>

\* lines 32-53
TwoLoadRawImages(p) ==
    /\ local[p].pc = "clean"
    /\ local' = [local EXCEPT ![p] =
                    IF RawListingRaises
                    THEN [@ EXCEPT !.pc = "aborted"]
                    ELSE [@ EXCEPT !.pc = "train", !.todo = ListLabels("train"),
                                   !.basenames = RawBaseNames, !.full_paths = RawFullPaths]]
    /\ UNCHANGED <<prepVars, lineVars, histVars, extVars, ctrVars, rootOf, trees>>

\* the local variables after the loop body returned r for a file of the split
AfterLabel(l, esplit, label, r) ==
    [l EXCEPT !.todo = @ \ {label},
              !.train = IF esplit = "train" THEN @ + r.accepted ELSE @,
              !.val = IF esplit = "train" THEN @ ELSE @ + r.accepted,
              !.skipped = @ + r.skipped,
              !.total = r.dict]

\* lines 54-73 and 78-97: one label file of the split the run is in
TwoProcessLabel(p) ==
    /\ local[p].pc \in {"train", "val"}
    /\ \E label \in local[p].todo :
          \E esplit \in {IF local[p].pc = "train" THEN "train" ELSE "validation"} :
          \E r \in {LoopBody(esplit, label, local[p].basenames, local[p].full_paths,
                              local[p].total, trees[TreeRoot(p)])} :
              /\ trees' = [trees EXCEPT ![TreeRoot(p)] = r.out]
              /\ local' = [local EXCEPT ![p] = AfterLabel(@, esplit, label, r)]
    /\ UNCHANGED <<prepVars, lineVars, histVars, extVars, ctrVars, rootOf>>

\* lines 76-78
TwoEnterValidation(p) ==
    /\ local[p].pc = "train"
    /\ local[p].todo = {}
    /\ local' = [local EXCEPT ![p].pc = "val", ![p].todo = ListLabels("validation")]
    /\ UNCHANGED <<prepVars, lineVars, histVars, extVars, ctrVars, rootOf, trees>>

\* line 120: open(os.path.join(OUTPUT_DATA_DIR, 'data.yaml'), 'w') raises
\* FileNotFoundError when the directory is gone
ManifestRaises(o, accepted) == accepted # 0 /\ ~o.exists

\* what a run has to show when it ends
Outcome(o, l) ==
    [out |-> o, train |-> l.train, val |-> l.val, skipped |-> l.skipped, total |-> l.total]

\* the local variables at the end of the run that leaves the tree o
AtEnd(l, o, raised) ==
    [l EXCEPT !.pc = IF raised THEN "crashed" ELSE "done",
              !.total = TouchAll(@, CLASS_NAMES),
              !.final = <<Outcome(o, [l EXCEPT !.total = TouchAll(@, CLASS_NAMES)])>>]

\* lines 99-124
TwoSummarize(p) ==
    /\ local[p].pc = "val"
    /\ local[p].todo = {}
    /\ \E raised \in {ManifestRaises(trees[TreeRoot(p)], local[p].train + local[p].val)} :
       \E o \in {IF raised THEN trees[TreeRoot(p)]
                  ELSE WriteManifest(trees[TreeRoot(p)], local[p].train + local[p].val)} :
          /\ trees' = [trees EXCEPT ![TreeRoot(p)] = o]
          /\ local' = [local EXCEPT ![p] = AtEnd(@, o, raised)]
    /\ UNCHANGED <<prepVars, lineVars, histVars, extVars, ctrVars, rootOf>>

\* prepare_dataset alone on an existing raw-images directory, from its reset
\* to its end, as a function of the inputs; acc: the local variables and the tree
RECURSIVE LoopAlone(_, _, _)
LoopAloneWith(esplit, f, labels, acc, r) ==
    LoopAlone(esplit, labels \ {f}, [l |-> AfterLabel(acc.l, esplit, f, r), out |-> r.out])

\* the turn of the loop for label file f
LoopAloneOn(esplit, f, labels, acc) ==
    LoopAloneWith(esplit, f, labels, acc,
                  LoopBody(esplit, f, RawBaseNames, RawFullPaths, acc.l.total, acc.out))

LoopAlone(esplit, labels, acc) ==
    IF labels = {} THEN acc
    ELSE LoopAloneOn(esplit, CHOOSE f \in labels : TRUE, labels, acc)

AloneLoops ==
    LoopAlone("validation", ListLabels("validation"),
              LoopAlone("train", ListLabels("train"),
                        [l |-> FreshLocal, out |-> MakeAllDirs(NoOutput)]))

AloneEnd(acc) ==
    Outcome(WriteManifest(acc.out, acc.l.train + acc.l.val),
            [acc.l EXCEPT !.total = TouchAll(@, CLASS_NAMES)])

Alone == AloneEnd(AloneLoops)

\* the contents of the label files two runs read
TwoContents == {<<ValidLine(<<"1">>)>>, <<UnparsableLine, ValidLine(<<"1">>)>>}

TwoFileSets(names) ==
    UNION {{{[name |-> n, lines |-> c[n]] : n \in S} :
              c \in {d \in [S -> TwoContents \cup {OtherText}] :
                        \A n \in S : IsLabelName(n) <=> d[n] \in TwoContents}} :
           S \in {T \in SUBSET names : \A n \in names : ~IsLabelName(n) => n \in T}}

TwoDirStates(names) ==
    {[exists |-> FALSE, files |-> {}]} \cup {[exists |-> TRUE, files |-> F] : F \in TwoFileSets(names)}

TwoLabelDirs ==
    {[s \in ExportSplits |-> IF s = "train" THEN t ELSE v] :
        t \in TwoDirStates(LabelNames("train")), v \in TwoDirStates(LabelNames("validation"))}

TwoFileSystems ==
    UNION {{[dirs |-> d, fails |-> F] :
               F \in {G \in SUBSET Sources(RawCandidates, d) : Cardinality(G) <= MaxFaults}} :
           d \in TwoLabelDirs}

InitTwo ==
    /\ rawExists = TRUE
    /\ rawFiles = RawCandidates \cup RawOther
    /\ \E fs \in TwoFileSystems : labelDir = fs.dirs /\ copyFails = fs.fails
    /\ out = NoOutput
    /\ pc = "off"
    /\ todo = {}
    /\ all_raw_images_basenames = {}
    /\ raw_images_full_paths = EmptyDict
    /\ train_image_count = 0
    /\ val_image_count = 0
    /\ skipped_image_count = 0
    /\ total_objects_per_class = EmptyDict
    /\ labelsRead = {}
    /\ summary = <<>>
    /\ runs = <<>>
    /\ LineIdle
    /\ CtrIdle
    /\ previousOutput = NoOutput
    /\ ExtIdle
    /\ rootOf \in {r \in [Procs -> Roots] : r[1] = "data1"}
    /\ trees = [r \in Roots |-> IF r = "data1" THEN StaleOutput ELSE NoOutput]
    /\ local = [p \in Procs |-> FreshLocal]

NextTwo ==
    \/ \E p \in Procs : TwoRmTree(p)
    \/ \E p \in Procs : TwoMakeDirs(p)
    \/ \E p \in Procs : TwoLoadRawImages(p)
    \/ \E p \in Procs : TwoProcessLabel(p)
    \/ \E p \in Procs : TwoEnterValidation(p)
    \/ \E p \in Procs : TwoSummarize(p)

SpecTwo == InitTwo /\ [][NextTwo]_vars

(***************************************************************************)
(* predict_with_retry (frontend/api_client.py)                             *)
(***************************************************************************)
\* the largest max_retries a call is followed with
MaxRetries == 3

\* the default of the parameter max_retries
DefaultMaxRetries == 2

\* timeout = 60 + (attempt * 30)
BaseTimeout == 60

TimeoutStep == 30

TimeoutOf(a) == BaseTimeout + (a * TimeoutStep)

\* the values response.json() can give: members holds the strings x for which
\* the Python test x in value is True (keys of an object, items of an array,
\* substrings of a string); a number and null have no such test
JsonValues ==
    {[type |-> "object", members |-> {"predictions", "total_detections", "vegetable_counts"}],
     [type |-> "object", members |-> {"message"}],
     [type |-> "array",  members |-> {}],
     [type |-> "array",  members |-> {"predictions"}],
     [type |-> "string", members |-> {"no", "predictions"}],
     [type |-> "string", members |-> {"ok"}],
     [type |-> "number", members |-> {}],
     [type |-> "null",   members |-> {}]}

\* a body that is no JSON text
NotJson == [type |-> "invalid", members |-> {}]

\* the exceptions requests.post raises, each with the classes it is an instance of
PostExceptions ==
    {[name |-> "ReadTimeout", classes |-> {"ReadTimeout", "Timeout", "RequestException"}],
     [name |-> "ConnectTimeout",
      classes |-> {"ConnectTimeout", "ConnectionError", "Timeout", "RequestException"}],
     [name |-> "ConnectionError", classes |-> {"ConnectionError", "RequestException"}],
     [name |-> "TooManyRedirects", classes |-> {"TooManyRedirects", "RequestException"}]}

\* the exception of response.json() on a body that is no JSON: a RequestException
\* in the releases of requests that have requests.exceptions.JSONDecodeError,
\* a plain ValueError in the older ones
JsonExceptions ==
    {[name |-> "JSONDecodeError",
      classes |-> {"JSONDecodeError", "InvalidJSONError", "RequestException", "ValueError"}],
     [name |-> "JSONDecodeError", classes |-> {"JSONDecodeError", "ValueError"}]}

\* what one POST to /predict can be answered with
Replies ==
    {[kind |-> "response", status |-> 200, body |-> b] : b \in JsonValues \cup {NotJson}}
    \cup {[kind |-> "response", status |-> c, body |-> NotJson] : c \in {502, 504, 500, 404}}
    \cup {[kind |-> "exception", exc |-> e] : e \in PostExceptions}

ReturnNone == [kind |-> "return", value |-> <<>>]

Return(v) == [kind |-> "return", value |-> <<v>>]

Raise(e) == [kind |-> "raise", exc |-> e.name]

Continue == [kind |-> "continue"]

\* if attempt < max_retries: continue, else: return None
RetryOrNone(a, m) == IF a < m THEN Continue ELSE ReturnNone

\* the except clauses of lines 159-173, tried in their order
Except(e, a, m) ==
    IF "Timeout" \in e.classes THEN RetryOrNone(a, m)
    ELSE IF "ConnectionError" \in e.classes THEN ReturnNone
    ELSE IF "RequestException" \in e.classes THEN ReturnNone
    ELSE Raise(e)

\* "predictions" in result (lines 132-136): a TypeError when result is no container
ValidateStructure(result) ==
    IF result.type \notin {"object", "array", "string"}
    THEN Raise([name |-> "TypeError", classes |-> {"TypeError"}])
    ELSE IF "predictions" \in result.members THEN Return(result) ELSE ReturnNone

\* lines 128-157: the branches on response.status_code
OnResponse(r, a, m, jsonError) ==
    IF r.status = 200
    THEN IF r.body = NotJson THEN Except(jsonError, a, m) ELSE ValidateStructure(r.body)
    ELSE IF r.status = 502 THEN RetryOrNone(a, m)
    ELSE IF r.status = 504 THEN RetryOrNone(a, m)
    ELSE ReturnNone

\* how the call goes on after the body of the loop gave o
After(o) ==
    IF o.kind = "continue"
    THEN /\ attempt' = attempt + 1
         /\ UNCHANGED <<rtPc, rtResult>>
    ELSE /\ rtPc' = "over"
         /\ rtResult' = <<o>>
         /\ UNCHANGED attempt

\* one iteration of the loop of line 118 in which requests.post returns a response
PostAnswered ==
    /\ rtPc = "loop"
    /\ attempt <= max_retries
    /\ \E r \in {x \in Replies : x.kind = "response"}, jsonError \in JsonExceptions :
          /\ sent' = Append(sent, [attempt |-> attempt, timeout |-> TimeoutOf(attempt),
                                   reply |-> r])
          /\ After(OnResponse(r, attempt, max_retries, jsonError))
    /\ UNCHANGED <<max_retries, prepVars, histVars, lineVars, ctrVars, twoVars,
                   uiVars, flatVars, apiVars>>

\* one iteration of the loop in which requests.post raises
PostRaises ==
    /\ rtPc = "loop"
    /\ attempt <= max_retries
    /\ \E r \in {x \in Replies : x.kind = "exception"} :
          /\ sent' = Append(sent, [attempt |-> attempt, timeout |-> TimeoutOf(attempt),
                                   reply |-> r])
          /\ After(Except(r.exc, attempt, max_retries))
    /\ UNCHANGED <<max_retries, prepVars, histVars, lineVars, ctrVars, twoVars,
                   uiVars, flatVars, apiVars>>

\* line 175: range(max_retries + 1) is exhausted
RangeExhausted ==
    /\ rtPc = "loop"
    /\ attempt > max_retries
    /\ rtPc' = "over"
    /\ rtResult' = <<ReturnNone>>
    /\ UNCHANGED <<max_retries, attempt, sent, prepVars, histVars, lineVars, ctrVars,
                   twoVars, uiVars, flatVars, apiVars>>

InitRetry ==
    /\ max_retries \in -1..MaxRetries
    /\ attempt = 0
    /\ rtPc = "loop"
    /\ sent = <<>>
    /\ rtResult = <<>>
    /\ PrepIdle
    /\ previousOutput = NoOutput
    /\ LineIdle
    /\ CtrIdle
    /\ TwoIdle
    /\ SessionIdle
    /\ FlattenIdle
    /\ ApiIdle

NextRetry ==
    \/ PostAnswered
    \/ PostRaises
    \/ RangeExhausted

SpecRetry == InitRetry /\ [][NextRetry]_vars

(***************************************************************************)
(* The image-flattening script (src/rename-images.py)                      *)
(***************************************************************************)
\* for split_type in ['train', 'test', 'validation']
FlattenSplits == <<"train", "test", "validation">>

\* filename.lower().endswith(('.png', '.jpg', '.jpeg', '.gif', '.bmp'))
IsFlattenImage(name) == Lower(name[2]) \in {".png", ".jpg", ".jpeg", ".gif", ".bmp"}

\* new_filename = f"{category_name}_{split_type}_{filename}"
NewFilename(category_name, split, name) ==
    <<category_name \o "_" \o split \o "_" \o name[1], name[2]>>

\* the entries data/raw may hold: files of category directories, and one entry
\* of a split directory that is no directory
SourceEntries ==
    {[split |-> "train", category |-> "carrot", isdir |-> TRUE,
      name |-> <<"test_1", ".jpg">>, data |-> "pixels_1"],
     [split |-> "test", category |-> "carrot_train", isdir |-> TRUE,
      name |-> <<"1", ".jpg">>, data |-> "pixels_2"],
     [split |-> "train", category |-> "carrot", isdir |-> TRUE,
      name |-> <<"1", ".JPG">>, data |-> "pixels_3"],
     [split |-> "test", category |-> "carrot", isdir |-> TRUE,
      name |-> <<"1", ".jpg">>, data |-> "pixels_4"],
     [split |-> "train", category |-> "bean", isdir |-> TRUE,
      name |-> <<"notes", ".txt">>, data |-> "text_1"],
     [split |-> "validation", category |-> "bean", isdir |-> TRUE,
      name |-> <<"1", ".png">>, data |-> "pixels_5"],
     [split |-> "train", category |-> "README", isdir |-> FALSE,
      name |-> <<"README", "">>, data |-> "text_2"]}

\* the source path of an entry
SourcePath(e) == [split |-> e.split, category |-> e.category, name |-> e.name]

\* os.listdir(split_path): the names under a split directory
Categories(split) == {e.category : e \in {x \in rawTree : x.split = split}}

\* os.path.isdir(category_path)
IsDir(split, category_name) ==
    \E e \in rawTree : e.split = split /\ e.category = category_name /\ e.isdir

\* the image files of a category directory (lines 24-25)
ImagesOf(split, category_name) ==
    {e \in rawTree : /\ e.split = split
                     /\ e.category = category_name
                     /\ e.isdir
                     /\ IsFlattenImage(e.name)}

\* lines 26-33 for the image files of one category directory
CopiedInto(dir, split, category_name) ==
    [n \in DOMAIN dir \cup {NewFilename(category_name, split, e.name) :
                               e \in ImagesOf(split, category_name)} |->
        IF \E e \in ImagesOf(split, category_name) :
              NewFilename(category_name, split, e.name) = n
        THEN (CHOOSE e \in ImagesOf(split, category_name) :
                 NewFilename(category_name, split, e.name) = n).data
        ELSE dir[n]]

\* the split after this one in the list of line 14, <<>> after the last
SplitAfter(split) ==
    IF split = "train" THEN <<"test">>
    ELSE IF split = "test" THEN <<"validation">>
    ELSE <<>>

\* lines 14-18: os.listdir(split_path) raises FileNotFoundError on a missing split
ListSplit ==
    /\ flPc = "list"
    /\ IF split_type \in splitDirs
       THEN /\ flTodo' = Categories(split_type)
            /\ flPc' = "visit"
       ELSE /\ flPc' = "crashed"
            /\ UNCHANGED flTodo
    /\ UNCHANGED <<rawTree, splitDirs, split_type, raw_images, copies,
                   prepVars, histVars, lineVars, ctrVars, twoVars,
                   retryVars, uiVars, apiVars>>

\* lines 18-33 for one entry of the split directory, in the order of os.listdir
VisitCategory ==
    /\ flPc = "visit"
    /\ \E category_name \in flTodo :
          /\ flTodo' = flTodo \ {category_name}
          /\ IF IsDir(split_type, category_name)
             THEN /\ raw_images' = CopiedInto(raw_images, split_type, category_name)
                  /\ copies' = copies \cup
                        {[from |-> SourcePath(e),
                          to |-> NewFilename(category_name, split_type, e.name),
                          over |-> NewFilename(category_name, split_type, e.name)
                                      \in DOMAIN raw_images] :
                            e \in ImagesOf(split_type, category_name)}
             ELSE UNCHANGED <<raw_images, copies>>
    /\ UNCHANGED <<rawTree, splitDirs, flPc, split_type,
                   prepVars, histVars, lineVars, ctrVars, twoVars,
                   retryVars, uiVars, apiVars>>

\* the listing of the split is exhausted: the next split, or line 35
LeaveSplit ==
    /\ flPc = "visit"
    /\ flTodo = {}
    /\ IF SplitAfter(split_type) = <<>>
       THEN /\ flPc' = "done"
            /\ UNCHANGED split_type
       ELSE /\ flPc' = "list"
            /\ split_type' = SplitAfter(split_type)[1]
    /\ UNCHANGED <<rawTree, splitDirs, flTodo, raw_images, copies,
                   prepVars, histVars, lineVars, ctrVars, twoVars,
                   retryVars, uiVars, apiVars>>

InitFlatten ==
    /\ rawTree \in SUBSET SourceEntries
    /\ splitDirs \in SUBSET {FlattenSplits[i] : i \in 1..Len(FlattenSplits)}
    /\ {e.split : e \in rawTree} \subseteq splitDirs
    /\ flPc = "list"
    /\ split_type = FlattenSplits[1]
    /\ flTodo = {}
    /\ raw_images = EmptyDict
    /\ copies = {}
    /\ PrepIdle
    /\ previousOutput = NoOutput
    /\ LineIdle
    /\ CtrIdle
    /\ TwoIdle
    /\ RetryIdle
    /\ SessionIdle
    /\ ApiIdle

NextFlatten ==
    \/ ListSplit
    \/ VisitCategory
    \/ LeaveSplit

SpecFlatten == InitFlatten /\ [][NextFlatten]_vars

(***************************************************************************)
(* POST /predict (api/prediction_api.py)                                   *)
(***************************************************************************)
\* CLASS_NAMES of the API
ApiClassNames == <<"carrot", "bean", "radish">>

\* the largest class id the loaded model may report
MaxClassId == 3

\* the uploads: filename and content_type are <<>> when the client sent none,
\* a content type is <<type, subtype>>
UploadNames == {<<>>, <<<<"a", ".jpg">>>>, <<<<"a", ".JPG">>>>, <<<<"a", ".gif">>>>,
                <<<<"a", ".txt">>>>}

ContentTypes == {<<>>, <<<<"image", "jpeg">>>>, <<<<"text", "plain">>>>,
                 <<<<"Image", "png">>>>}

\* what model(image) does: it raises, or it gives the class ids of the boxes
Inferences ==
    {[raises |-> TRUE, cls |-> <<>>]}
    \cup {[raises |-> FALSE, cls |-> c] :
             c \in {<<>>} \cup {<<i>> : i \in 0..MaxClassId}
                   \cup {<<i, j>> : i \in {1}, j \in 1..MaxClassId}}

Requests ==
    [filename : UploadNames, content_type : ContentTypes, readable : BOOLEAN,
     decodable : BOOLEAN, inference : Inferences]

\* validate_image
validate_image(file) ==
    LET file_extension == IF file.filename # <<>> THEN Lower(file.filename[1][2]) ELSE ""
    IN  IF file_extension \notin {".jpg", ".jpeg", ".png", ".bmp", ".tiff", ".webp"}
        THEN FALSE
        ELSE IF file.content_type = <<>> \/ file.content_type[1][1] # "image"
             THEN FALSE
             ELSE TRUE

HTTPException(status_code, detail) ==
    [type |-> "HTTPException", status_code |-> status_code, detail |-> detail]

IndexError == [type |-> "IndexError", status_code |-> 0, detail |-> ""]

\* CLASS_NAMES[int(cls_id)]: a negative index counts from the end
ClassNameOf(cls_id) ==
    IF cls_id >= 0 /\ cls_id < Len(ApiClassNames) THEN <<ApiClassNames[cls_id + 1]>>
    ELSE IF cls_id < 0 /\ cls_id >= 0 - Len(ApiClassNames)
         THEN <<ApiClassNames[Len(ApiClassNames) + cls_id + 1]>>
         ELSE <<>>

\* format_predictions: the class names of the detections, <<>> wrapped; or the
\* IndexError of the first class id that CLASS_NAMES does not have
format_predictions(cls) ==
    IF \E i \in 1..Len(cls) : ClassNameOf(cls[i]) = <<>>
    THEN [raised |-> <<IndexError>>, value |-> <<>>]
    ELSE [raised |-> <<>>, value |-> [i \in 1..Len(cls) |-> ClassNameOf(cls[i])[1]]]

\* lines 156-158
vegetable_counts(preds) ==
    [c \in {ApiClassNames[i] : i \in 1..Len(ApiClassNames)} |->
        Cardinality({i \in 1..Len(preds) : preds[i] = c})]

\* lines 160-166
JSONResponse(preds) ==
    [status |-> 200, detail |-> "",
     content |-> <<[predictions |-> preds, total_detections |-> Len(preds),
                    vegetable_counts |-> vegetable_counts(preds)]>>]

\* the response FastAPI makes of an HTTPException that leaves the handler
ErrorResponse(e) == [status |-> e.status_code, detail |-> e.detail, content |-> <<>>]

\* slip: no except HTTPException clause, every exception is wrapped
OuterExceptWrapsAll(e) ==
    HTTPException(500, "An unexpected error occurred during prediction.")

\* lines 168-174: an HTTPException is re-raised, anything else becomes a 500
OuterExcept(e) ==
    IF e.type = "HTTPException" THEN e
    ELSE HTTPException(500, "An unexpected error occurred during prediction.")

\* an exception raised inside the try of line 117 ends the request
Fails(e) ==
    /\ apiPc' = "responded"
    /\ apiLocal' = [apiLocal EXCEPT !.raised = <<e>>]
    /\ response' = <<ErrorResponse(OuterExcept(e))>>

\* lines 119-123
ApiValidate ==
    /\ apiPc = "validate"
    /\ IF ~validate_image(request)
       THEN Fails(HTTPException(400, "Uploaded file is not a valid image. Please upload a JPG, PNG, or similar image file."))
       ELSE /\ apiPc' = "read"
            /\ UNCHANGED <<apiLocal, response>>
    /\ UNCHANGED <<request, prepVars, histVars, lineVars, ctrVars, twoVars,
                   retryVars, uiVars, flatVars>>

\* lines 126-132
ApiRead ==
    /\ apiPc = "read"
    /\ IF ~request.readable
       THEN Fails(HTTPException(400, "Failed to read uploaded file."))
       ELSE /\ apiPc' = "process"
            /\ apiLocal' = [apiLocal EXCEPT !.file_bytes = TRUE]
            /\ UNCHANGED response
    /\ UNCHANGED <<request, prepVars, histVars, lineVars, ctrVars, twoVars,
                   retryVars, uiVars, flatVars>>

\* lines 135-141: process_image turns every failure into a ValueError
ApiProcess ==
    /\ apiPc = "process"
    /\ IF ~request.decodable
       THEN Fails(HTTPException(400, "Uploaded file is not a valid image format."))
       ELSE /\ apiPc' = "infer"
            /\ apiLocal' = [apiLocal EXCEPT !.image = TRUE]
            /\ UNCHANGED response
    /\ UNCHANGED <<request, prepVars, histVars, lineVars, ctrVars, twoVars,
                   retryVars, uiVars, flatVars>>

\* lines 144-150
ApiInfer ==
    /\ apiPc = "infer"
    /\ IF request.inference.raises
       THEN Fails(HTTPException(500, "Model inference failed. Please try again."))
       ELSE /\ apiPc' = "format"
            /\ apiLocal' = [apiLocal EXCEPT !.results = <<request.inference.cls>>]
            /\ UNCHANGED response
    /\ UNCHANGED <<request, prepVars, histVars, lineVars, ctrVars, twoVars,
                   retryVars, uiVars, flatVars>>

\* lines 153-166
ApiRespond ==
    /\ apiPc = "format"
    /\ \E p \in {format_predictions(apiLocal.results[1])} :
          IF p.raised # <<>>
          THEN Fails(p.raised[1])
          ELSE /\ apiPc' = "responded"
               /\ response' = <<JSONResponse(p.value)>>
               /\ UNCHANGED apiLocal
    /\ UNCHANGED <<request, prepVars, histVars, lineVars, ctrVars, twoVars,
                   retryVars, uiVars, flatVars>>

InitApi ==
    /\ request \in Requests
    /\ apiPc = "validate"
    /\ apiLocal = [file_bytes |-> FALSE, image |-> FALSE, results |-> <<>>, raised |-> <<>>]
    /\ response = <<>>
    /\ PrepIdle
    /\ previousOutput = NoOutput
    /\ LineIdle
    /\ CtrIdle
    /\ TwoIdle
    /\ RetryIdle
    /\ SessionIdle
    /\ FlattenIdle

NextApi ==
    \/ ApiValidate
    \/ ApiRead
    \/ ApiProcess
    \/ ApiInfer
    \/ ApiRespond

SpecApi == InitApi /\ [][NextApi]_vars

(***************************************************************************)
(* The front end (frontend/app.py): one action is one run of the script,   *)
(* started by what the user did                                            *)
(***************************************************************************)
\* the files a user may put into the file_uploader
UploadedFiles ==
    [name : {<<"x", ".jpg">>, <<"y", ".png">>},
     data : {"pixels_1", "pixels_2", "no_image"}]

\* Image.open(io.BytesIO(image_bytes)) raises on bytes that are no image
ImageOpens(data) == data # "no_image"

\* what predict(image_bytes, name) gives: a dict with the detected classes,
\* None, or an exception
PredictOutcomes ==
    {[kind |-> "dict", classes |-> {"carrot"}],
     [kind |-> "dict", classes |-> {"carrot", "bean"}],
     [kind |-> "dict", classes |-> {}],
     [kind |-> "none", classes |-> {}],
     [kind |-> "raises", classes |-> {}]}

\* st.session_state as a record
Session ==
    [original_image |-> original_image, predictions |-> predictions,
     visibility_toggles |-> visibility_toggles, last_uploaded_name |-> last_uploaded_name,
     predicted_from |-> predicted_from, aborted |-> FALSE]

\* lines 122-141: the toggles are shown only for predictions with detections,
\* and take the values t of the check boxes
Sidebar(s, t) ==
    IF s.predictions # <<>> /\ s.predictions[1].classes # {}
    THEN [s EXCEPT !.visibility_toggles = t]
    ELSE s

\* line 172: the upload counts as new when its name differs from the last one
IsNewUpload(s, f) == f # <<>> /\ <<f[1].name>> # s.last_uploaded_name

\* lines 173-175
AfterUpload(s, f, new) ==
    [s EXCEPT !.original_image = <<f[1].data>>,
              !.predictions = IF new THEN <<>> ELSE @,
              !.visibility_toggles = IF new THEN <<>> ELSE @,
              !.predicted_from = IF new THEN <<>> ELSE @,
              !.last_uploaded_name = <<f[1].name>>]

\* lines 167-175: nothing without a file; the exception of Image.open ends the run
Upload(s, f) ==
    IF f = <<>> THEN s
    ELSE IF ~ImageOpens(f[1].data) THEN [s EXCEPT !.aborted = TRUE]
    ELSE AfterUpload(s, f, IsNewUpload(s, f))

\* lines 199-234, reached when the button was clicked: the bytes of the widget's
\* file are sent
Detect(s, f, clicked, detections) ==
    IF s.aborted \/ f = <<>> \/ ~clicked THEN s
    ELSE IF detections.kind = "dict"
         THEN [s EXCEPT !.predictions = <<[classes |-> detections.classes]>>,
                        !.visibility_toggles = [c \in detections.classes |-> TRUE],
                        !.predicted_from = <<f[1].data>>]
         ELSE [s EXCEPT !.predictions = <<>>,
                        !.visibility_toggles = <<>>,
                        !.predicted_from = <<>>]

\* lines 243-252: what draw_predictions_on_image is called with
Display(s) ==
    IF s.aborted \/ s.predictions = <<>> THEN <<>>
    ELSE <<[image |-> s.original_image, detections |-> s.predictions[1],
            computed_from |-> s.predicted_from,
            visible |-> {c \in DOMAIN s.visibility_toggles : s.visibility_toggles[c]}
                        \cup (s.predictions[1].classes \ DOMAIN s.visibility_toggles)]>>

\* the values the check boxes of the sidebar can have
ToggleValues == [DOMAIN visibility_toggles -> BOOLEAN]

\* one run of the script with the file f in the uploader
ScriptRun(f, clicked, detections, t) ==
    \E s \in {Detect(Upload(Sidebar(Session, t), f), f, clicked, detections)} :
        /\ uploaded_file' = f
        /\ original_image' = s.original_image
        /\ predictions' = s.predictions
        /\ visibility_toggles' = s.visibility_toggles
        /\ last_uploaded_name' = s.last_uploaded_name
        /\ predicted_from' = s.predicted_from
        /\ shown' = Display(s)
        /\ UNCHANGED <<prepVars, histVars, lineVars, ctrVars, twoVars,
                       retryVars, flatVars, apiVars>>

\* the user puts a file into the uploader
UploadFile ==
    \E f \in UploadedFiles, t \in ToggleValues :
        /\ uploaded_file # <<f>>
        /\ ScriptRun(<<f>>, FALSE, [kind |-> "none", classes |-> {}], t)

\* the user removes the file from the uploader
RemoveFile ==
    /\ uploaded_file # <<>>
    /\ \E t \in ToggleValues :
          ScriptRun(<<>>, FALSE, [kind |-> "none", classes |-> {}], t)

\* the user clicks the button of line 178, which the last run has drawn
ClickDetect ==
    /\ uploaded_file # <<>>
    /\ ImageOpens(uploaded_file[1].data)
    /\ \E detections \in PredictOutcomes, t \in ToggleValues :
          ScriptRun(uploaded_file, TRUE, detections, t)

\* the user changes a check box of the sidebar
ChangeToggles ==
    /\ predictions # <<>>
    /\ predictions[1].classes # {}
    /\ \E t \in ToggleValues :
          /\ t # visibility_toggles
          /\ ScriptRun(uploaded_file, FALSE, [kind |-> "none", classes |-> {}], t)

\* the session after the first run of the script (lines 19-24)
InitSession ==
    /\ uploaded_file = <<>>
    /\ original_image = <<>>
    /\ predictions = <<>>
    /\ visibility_toggles = <<>>
    /\ last_uploaded_name = <<>>
    /\ predicted_from = <<>>
    /\ shown = <<>>
    /\ PrepIdle
    /\ previousOutput = NoOutput
    /\ LineIdle
    /\ CtrIdle
    /\ TwoIdle
    /\ RetryIdle
    /\ FlattenIdle
    /\ ApiIdle

NextSession ==
    \/ UploadFile
    \/ RemoveFile
    \/ ClickDetect
    \/ ChangeToggles

SpecSession == InitSession /\ [][NextSession]_vars

(***************************************************************************)
(* Vocabulary of the properties                                            *)
(***************************************************************************)
\* the number of whitespace-separated fields of a line
FieldCount(line) ==
    Cardinality({i \in 1..Len(line) :
                    line[i] \notin Whitespace /\ (i = 1 \/ line[i - 1] \in Whitespace)})

\* the first field of a line that has one
FirstField(line) ==
    LET from == CHOOSE i \in 1..Len(line) :
                    line[i] \notin Whitespace /\ \A j \in 1..(i - 1) : line[j] \in Whitespace
        upto == CHOOSE k \in from..Len(line) :
                    /\ \A j \in from..k : line[j] \notin Whitespace
                    /\ k = Len(line) \/ line[k + 1] \in Whitespace
    IN  SubSeq(line, from, upto)

WellFormed(line) == FieldCount(line) >= 5

HasClassId(line) == WellFormed(line) /\ ParseInt(FirstField(line)).ok

ClassId(line) == ParseInt(FirstField(line)).val

InRange(line, table) == HasClassId(line) /\ 0 <= ClassId(line) /\ ClassId(line) < Len(table)

\* the dictionary and the object count a function had before line i of the file
DictBefore(log, i) == IF i = 1 THEN lnStart ELSE log[i - 1].dict

ObjectsBefore(log, i) == IF i = 1 THEN 0 ELSE log[i - 1].objects

\* d2 is d1 with one more instance of class k and nothing else changed
OneMore(d1, d2, k) ==
    /\ DOMAIN d2 = DOMAIN d1 \cup {k}
    /\ \A c \in DOMAIN d2 : d2[c] = DictGet(d1, c) + (IF c = k THEN 1 ELSE 0)

SeqRange(q) == {q[i] : i \in 1..Len(q)}

(***************************************************************************)
(* C4: a line of fewer than 5 whitespace-separated fields (the empty line  *)
(* included) is a malformed skip in both functions, whatever the class     *)
(* table: no per-class count and no object total changes.                  *)
(***************************************************************************)
C4_ShortLineIsMalformed ==
    /\ \A r \in SeqRange(lnPrep) : \A i \in 1..Len(r.trace) :
          FieldCount(lnFile[i]) < 5 =>
              /\ r.trace[i].outcome = "malformed"
              /\ r.trace[i].dict = DictBefore(r.trace, i)
    /\ \A r \in SeqRange(lnCtr) : \A i \in 1..Len(r.log) :
          FieldCount(lnFile[i]) < 5 =>
              /\ r.log[i].outcome = "malformed"
              /\ r.log[i].dict = DictBefore(r.log, i)
              /\ r.log[i].objects = ObjectsBefore(r.log, i)

\* both functions have read a file whose second line has a valid class id but 4 fields
C4_Witness ==
    /\ lnPrep # <<>> /\ lnCtr # <<>>
    /\ Len(lnFile) = 3
    /\ FieldCount(lnFile[2]) = 4
    /\ FirstField(lnFile[2]) = <<"2">>
    /\ lnTable = CLASS_NAMES
    /\ lnPrep[1].trace[2].outcome = "malformed"
    /\ lnCtr[1].log[2].outcome = "malformed"
    /\ lnCtr[1].objects = 2

(***************************************************************************)
(* C5: a line of at least 5 fields whose first field is an integer outside *)
(* [0, len(class table)), negative ids included, is an out-of-range skip:  *)
(* no count changes, and the counts never get a key that is no class name  *)
(* of the table.                                                           *)
(***************************************************************************)
C5_OutOfRangeIsSkipped ==
    /\ \A r \in SeqRange(lnPrep) :
          /\ \A i \in 1..Len(r.trace) :
                (HasClassId(lnFile[i]) /\ ~InRange(lnFile[i], lnTable)) =>
                    /\ r.trace[i].outcome = "out_of_range"
                    /\ r.trace[i].dict = DictBefore(r.trace, i)
          /\ DOMAIN r.dict \subseteq DOMAIN lnStart \cup SeqRange(lnTable)
    /\ \A r \in SeqRange(lnCtr) :
          /\ \A i \in 1..Len(r.log) :
                (HasClassId(lnFile[i]) /\ ~InRange(lnFile[i], lnTable)) =>
                    /\ r.log[i].outcome = "out_of_range"
                    /\ r.log[i].dict = DictBefore(r.log, i)
                    /\ r.log[i].objects = ObjectsBefore(r.log, i)
          /\ DOMAIN r.dict \subseteq DOMAIN lnStart \cup SeqRange(lnTable)

\* both functions have read the line "-1 ..." between two lines that count
C5_Witness ==
    /\ lnPrep # <<>> /\ lnCtr # <<>>
    /\ Len(lnFile) = 3
    /\ HasClassId(lnFile[2]) /\ ClassId(lnFile[2]) = 0 - 1
    /\ lnTable = CLASS_NAMES
    /\ lnPrep[1].trace[2].outcome = "out_of_range"
    /\ lnCtr[1].log[2].outcome = "out_of_range"
    /\ lnPrep[1].ret

(***************************************************************************)
(* C6: a line of at least 5 fields whose class id i is in                  *)
(* [0, len(class table)) adds exactly one to the count of the class at     *)
(* index i and changes no other count (and one to the object total of the  *)
(* Annotation Counter).                                                    *)
(***************************************************************************)
C6_ValidLineCountsOnce ==
    /\ \A r \in SeqRange(lnPrep) : \A i \in 1..Len(r.trace) :
          InRange(lnFile[i], lnTable) =>
              /\ r.trace[i].outcome = "counted"
              /\ OneMore(DictBefore(r.trace, i), r.trace[i].dict, lnTable[ClassId(lnFile[i]) + 1])
    /\ \A r \in SeqRange(lnCtr) : \A i \in 1..Len(r.log) :
          InRange(lnFile[i], lnTable) =>
              /\ r.log[i].outcome = "counted"
              /\ OneMore(DictBefore(r.log, i), r.log[i].dict, lnTable[ClassId(lnFile[i]) + 1])
              /\ r.log[i].objects = ObjectsBefore(r.log, i) + 1

\* both functions have counted a radish on counts that held none, then a bean
C6_Witness ==
    /\ lnPrep # <<>> /\ lnCtr # <<>>
    /\ Len(lnFile) = 2
    /\ InRange(lnFile[1], lnTable) /\ ClassId(lnFile[1]) = 2
    /\ FieldCount(lnFile[1]) = 6
    /\ lnStart = ("carrot" :> 2)
    /\ lnPrep[1].dict = ("carrot" :> 2) @@ ("radish" :> 1) @@ ("bean" :> 1)
    /\ lnCtr[1].dict = lnPrep[1].dict
    /\ lnCtr[1].objects = 2

(***************************************************************************)
(* C3: for a label file with its image, no failure of a line goes past the *)
(* line: a malformed line, an out-of-range class id or a first field that  *)
(* is no integer leaves the other lines to be counted and the file to be   *)
(* copied and accepted.                                                    *)
(***************************************************************************)
C3_LineFailureStaysInLine ==
    \A r \in SeqRange(lnPrep) :
        /\ Len(r.trace) = Len(lnFile)
        /\ r.ret
        /\ \E l \in r.out.labels : l.name = TestLabel.name /\ l.lines = lnFile
        /\ \E g \in r.out.images : g.name = TestImage.name

(***************************************************************************)
(* Vocabulary of the properties of a run                                   *)
(***************************************************************************)
ImageExtensions == {".jpg", ".jpeg", ".png", ".JPG", ".JPEG", ".PNG"}

IsLabelFile(f) == f.name[2] = ".txt"

\* the raw images with the base name of a label file
RawImagesFor(f) ==
    {g \in rawFiles : g.name[1] = f.name[1] /\ g.name[2] \in ImageExtensions}

\* no line of the file raises while it is counted
Countable(lines) == \A i \in 1..Len(lines) : WellFormed(lines[i]) => HasClassId(lines[i])

\* the label file or its image is a source that fails to copy
CopyFaulty(esplit, f) ==
    \/ <<esplit, f.name>> \in copyFails
    \/ \E g \in RawImagesFor(f) : <<"raw", g.name>> \in copyFails

CurrentSplit == IF pc = "train" THEN "train" ELSE "validation"

\* this step is the turn of the loop for label file f
Iterates(f) == pc \in {"train", "val"} /\ f \in todo /\ todo' = todo \ {f}

\* a label file that the run accepts
Acceptable(esplit, f) ==
    /\ IsLabelFile(f)
    /\ RawImagesFor(f) # {}
    /\ Countable(f.lines)
    /\ ~CopyFaulty(esplit, f)

AcceptedCount(esplit) == IF esplit = "train" THEN train_image_count ELSE val_image_count

(***************************************************************************)
(* C1: for a label file, of either split, whose base name has no raw       *)
(* image, nothing is copied, no per-class count changes, the file is not   *)
(* opened, and the skipped-image counter grows by exactly one.             *)
(***************************************************************************)
C1_MissingImageIsSkipped ==
    [][\A f \in todo :
          (Iterates(f) /\ IsLabelFile(f) /\ RawImagesFor(f) = {}) =>
              /\ out' = out
              /\ total_objects_per_class' = total_objects_per_class
              /\ labelsRead' = labelsRead
              /\ skipped_image_count' = skipped_image_count + 1
              /\ train_image_count' = train_image_count
              /\ val_image_count' = val_image_count]_vars

\* a run over three label files, none of which has an image, has ended
C1_Witness ==
    /\ pc = "done"
    /\ Cardinality({f \in labelDir["train"].files : IsLabelFile(f)}) = 2
    /\ Cardinality({f \in labelDir["validation"].files : IsLabelFile(f)}) = 1
    /\ \A s \in ExportSplits : \A f \in labelDir[s].files :
          /\ RawImagesFor(f) = {}
          /\ IsLabelFile(f) => f.lines = <<ValidLine(<<"1">>)>>
    /\ skipped_image_count = 3
    /\ out.labels = {} /\ out.images = {}
    /\ DOMAIN total_objects_per_class = SeqRange(CLASS_NAMES)
    /\ \A c \in DOMAIN total_objects_per_class : total_objects_per_class[c] = 0

(***************************************************************************)
(* C2: when the copy of a label file or of its image fails, the file is    *)
(* counted as skipped (skipped-image counter + 1, accepted counts          *)
(* unchanged), no image is added for it, and the run goes on in the same   *)
(* loop with the label files that are left.                                *)
(***************************************************************************)
C2_CopyFailureSkipsTheFile ==
    [][\A f \in todo :
          (/\ Iterates(f) /\ IsLabelFile(f) /\ RawImagesFor(f) # {}
           /\ Countable(f.lines) /\ CopyFaulty(CurrentSplit, f)) =>
              /\ skipped_image_count' = skipped_image_count + 1
              /\ train_image_count' = train_image_count
              /\ val_image_count' = val_image_count
              /\ out'.images = out.images
              /\ out'.yaml = out.yaml
              /\ pc' = pc]_vars

\* the copy of train/a.txt failed, and the run went on to accept b.txt of the
\* validation split
C2_Witness ==
    /\ pc = "done"
    /\ copyFails = {<<"train", <<"a", ".txt">>>>}
    /\ \E f \in labelDir["train"].files :
          f.name = <<"a", ".txt">> /\ Countable(f.lines) /\ RawImagesFor(f) # {}
    /\ skipped_image_count = 1
    /\ train_image_count = 0
    /\ val_image_count = 1

(***************************************************************************)
(* C7: when a run has ended, data.yaml exists at the output root if and    *)
(* only if at least one image was accepted; with no label file in either   *)
(* split (directories absent or without label files) there is no manifest  *)
(* and both accepted counts are zero.                                      *)
(***************************************************************************)
C7_ManifestIffAccepted ==
    pc \in {"done", "aborted"} =>
        /\ (out.yaml # {}) <=> (train_image_count + val_image_count > 0)
        /\ (\A s \in ExportSplits : \A f \in labelDir[s].files : ~IsLabelFile(f)) =>
              (out.yaml = {} /\ train_image_count = 0 /\ val_image_count = 0)

\* a run that skipped every label file it found has ended without a manifest
C7_Witness ==
    /\ pc = "done"
    /\ out.yaml = {}
    /\ skipped_image_count = 2
    /\ labelsRead # {}
    /\ train_image_count + val_image_count = 0

(***************************************************************************)
(* C8: a second run on unchanged inputs and the same output root leaves    *)
(* the output tree the first run left, whatever was under the output root  *)
(* before: after every run the tree holds the four directories and only    *)
(* files of this run's inputs.                                             *)
(***************************************************************************)
OnlyFromInputs(o) ==
    /\ o.dirs = OutputDirs
    /\ \A l \in o.labels : \E e \in ExportSplits : \E f \in labelDir[e].files :
          l.split = OutputSplit(e) /\ l.name = f.name /\ l.lines = f.lines
    /\ \A g \in o.images : \E f \in rawFiles : g.name = f.name /\ g.data = f.data
    /\ o.yaml \subseteq {Manifest}

C8_SecondRunSameTree ==
    /\ \A k \in 2..Len(runs) : runs[k].out = runs[k - 1].out
    /\ \A k \in 1..Len(runs) : OnlyFromInputs(runs[k].out)

\* two runs have ended, each with copied files and a manifest
C8_Witness ==
    /\ Len(runs) = 2
    /\ runs[1].outcome = "done" /\ runs[2].outcome = "done"
    /\ runs[2].out.yaml = {Manifest}
    /\ Cardinality(runs[2].out.images) = 2
    /\ runs[2].skipped = 1

(***************************************************************************)
(* C9: when the raw-images directory is missing the run aborts at once:    *)
(* it read no label file, copied nothing, printed no summary and wrote no  *)
(* manifest.                                                               *)
(***************************************************************************)
C9_MissingRawDirAborts ==
    ~rawExists =>
        /\ pc \in {"start", "clean", "aborted"}
        /\ pc = "aborted" =>
              /\ labelsRead = {}
              /\ summary = <<>>
              /\ out.labels = {} /\ out.images = {} /\ out.yaml = {}

\* a run has aborted although both label directories hold label files
C9_Witness ==
    /\ ~rawExists
    /\ pc = "aborted"
    /\ \A s \in ExportSplits : \E f \in labelDir[s].files : IsLabelFile(f) /\ f.lines # <<>>
    /\ Len(runs) = 1

(***************************************************************************)
(* C10: when the label directory of one split is absent the run does not   *)
(* fail; that split adds nothing (no accepted file, no skipped file, no    *)
(* output file) and the label files of the other split are accepted or     *)
(* skipped each on its own merits, as when both directories exist.         *)
(***************************************************************************)
C10_AbsentSplitIsEmpty ==
    \A s, t \in ExportSplits :
        (rawExists /\ ~labelDir[s].exists /\ labelDir[t].exists) =>
            /\ pc # "aborted"
            /\ pc = "done" =>
                  /\ AcceptedCount(s) = 0
                  /\ \A l \in out.labels : l.split # OutputSplit(s)
                  /\ \A g \in out.images : g.split # OutputSplit(s)
                  /\ AcceptedCount(t) =
                         Cardinality({f \in labelDir[t].files : Acceptable(t, f)})
                  /\ skipped_image_count =
                         Cardinality({f \in labelDir[t].files :
                                         IsLabelFile(f) /\ ~Acceptable(t, f)})
                  /\ {g.name : g \in out.images} =
                         UNION {{g.name : g \in RawImagesFor(f)} :
                                   f \in {h \in labelDir[t].files : Acceptable(t, h)}}

\* without a validation directory, a run has accepted one train file and skipped the other
C10_Witness ==
    /\ pc = "done"
    /\ ~labelDir["validation"].exists
    /\ labelDir["train"].exists
    /\ train_image_count = 1
    /\ skipped_image_count = 1
    /\ out.yaml = {Manifest}

(***************************************************************************)
(* Vocabulary: what the inputs of a run hold                               *)
(***************************************************************************)
\* line i of the file is reached by the counting loop: no line before it raises
Reached(lines, i) == \A j \in 1..(i - 1) : WellFormed(lines[j]) => HasClassId(lines[j])

\* the label files the run opens: those with a raw image
Opened == {<<s, f>> \in UNION {{<<e, g>> : g \in labelDir[e].files} : e \in ExportSplits} :
              IsLabelFile(f) /\ RawImagesFor(f) # {}}

\* the instances of the class at index k that the opened files of the given splits hold
Instances(k, splits) ==
    {x \in UNION {{<<sf[1], sf[2].name, i>> : i \in 1..Len(sf[2].lines)} :
                    sf \in {y \in Opened : y[1] \in splits}} :
        \E sf \in Opened :
            /\ sf[1] = x[1] /\ sf[2].name = x[2]
            /\ Reached(sf[2].lines, x[3])
            /\ InRange(sf[2].lines[x[3]], CLASS_NAMES)
            /\ ClassId(sf[2].lines[x[3]]) = k - 1}

(***************************************************************************)
(* C11: every run that gets past the listing of the raw images ends with   *)
(* one summary: the accepted images of each split, the skipped images and, *)
(* for every class of CLASS_NAMES in its order, the instances counted, 0   *)
(* for a class without any; also when no image was accepted.               *)
(***************************************************************************)
C11_SummaryListsEveryClass ==
    /\ (rawExists /\ pc \in {"train", "val"}) => summary = <<>>
    /\ pc = "done" =>
          /\ Len(summary) = 1
          /\ summary[1].train = train_image_count
          /\ summary[1].val = val_image_count
          /\ summary[1].skipped = skipped_image_count
          /\ Len(summary[1].per_class) = Len(CLASS_NAMES)
          /\ \A k \in 1..Len(CLASS_NAMES) :
                /\ summary[1].per_class[k][1] = CLASS_NAMES[k]
                /\ summary[1].per_class[k][2] = Cardinality(Instances(k, ExportSplits))

\* a run that accepted nothing has printed carrot 0, bean 1, radish 0
C11_Witness ==
    /\ pc = "done"
    /\ train_image_count + val_image_count = 0
    /\ skipped_image_count = 2
    /\ summary[1].per_class = << <<"carrot", 0>>, <<"bean", 1>>, <<"radish", 0>> >>

(***************************************************************************)
(* C12: when a label file of export split s is accepted, the output tree   *)
(* holds, under the output split of s (train for train, val for            *)
(* validation), the label file and its raw image, each under its own name  *)
(* and with its own content; both are still there when the run ends, and   *)
(* no step changes the raw images or the exported label files.             *)
(***************************************************************************)
\* the tree o holds label file f of export split s and its image
HoldsPair(o, s, f) ==
    /\ [split |-> OutputSplit(s), name |-> f.name, lines |-> f.lines] \in o.labels
    /\ \A l \in o.labels : (l.split = OutputSplit(s) /\ l.name = f.name) => l.lines = f.lines
    /\ \E g \in RawImagesFor(f) :
          /\ [split |-> OutputSplit(s), name |-> g.name, data |-> g.data] \in o.images
          /\ \A i \in o.images : (i.split = OutputSplit(s) /\ i.name[1] = g.name[1]) =>
                                     (i.name = g.name /\ i.data = g.data)

C12_AcceptedPairIsCopied ==
    [][/\ fsVars' = fsVars
       /\ \A f \in todo :
             (/\ Iterates(f)
              /\ train_image_count' + val_image_count' =
                     train_image_count + val_image_count + 1) =>
                 /\ HoldsPair(out', CurrentSplit, f)
                 /\ Cardinality(out'.labels) = Cardinality(out.labels) + 1
                 /\ Cardinality(out'.images) = Cardinality(out.images) + 1
       /\ pc' = "done" =>
             \A s \in ExportSplits : \A f \in labelDir[s].files :
                 Acceptable(s, f) => HoldsPair(out', s, f)]_vars

\* a run has accepted b.txt in both splits, with different contents, and the image b.PNG
C12_Witness ==
    /\ pc = "done"
    /\ train_image_count = 1 /\ val_image_count = 1
    /\ \E l, m \in out.labels :
          /\ l.split = "train" /\ m.split = "val"
          /\ l.name = <<"b", ".txt">> /\ m.name = <<"b", ".txt">>
          /\ l.lines # m.lines
    /\ \E g, h \in out.images :
          /\ g.split = "train" /\ h.split = "val"
          /\ g.name = <<"b", ".PNG">> /\ h.name = <<"b", ".PNG">>
          /\ g.data = "pixels_b" /\ h.data = "pixels_b"

(***************************************************************************)
(* C13: when a run has ended, each output split holds matched pairs only:  *)
(* the base names under images/ are the base names under labels/, also     *)
(* when a copy failed during the run.                                      *)
(***************************************************************************)
BaseNamesOf(files, osplit) == {BaseName(x.name) : x \in {y \in files : y.split = osplit}}

C13_OnlyMatchedPairs ==
    pc = "done" =>
        \A osplit \in {"train", "val"} :
            BaseNamesOf(out.images, osplit) = BaseNamesOf(out.labels, osplit)

(***************************************************************************)
(* C14: the per-class counts are kept per split: the lines of a train      *)
(* label file add to the train counter of their class and leave the        *)
(* validation counter as it was, and the other way round.                  *)
(***************************************************************************)
\* the indices of the lines of a file that count for the class at index k
InstancesIn(lines, k) ==
    {i \in 1..Len(lines) :
        Reached(lines, i) /\ InRange(lines[i], CLASS_NAMES) /\ ClassId(lines[i]) = k - 1}

C14_CountsPerSplit ==
    [][\A f \in todo :
          (Iterates(f) /\ IsLabelFile(f) /\ RawImagesFor(f) # {}) =>
              /\ \A k \in 1..Len(CLASS_NAMES) :
                    DictGet(CounterOf(CurrentSplit)', CLASS_NAMES[k]) =
                        DictGet(CounterOf(CurrentSplit), CLASS_NAMES[k])
                            + Cardinality(InstancesIn(f.lines, k))
              /\ \A s \in ExportSplits \ {CurrentSplit} :
                    CounterOf(s)' = CounterOf(s)]_vars

(***************************************************************************)
(* C15: the Annotation Counter ends without error whichever label          *)
(* directories exist: a missing directory gives no file scanned and no     *)
(* object for its split, and the run ends with its summary and the target  *)
(* report of every class, also when both directories are missing or no     *)
(* file holds an object.                                                   *)
(***************************************************************************)
TotalOf(esplit) == IF esplit = "train" THEN total_train_objects ELSE total_val_objects

C15_CounterAlwaysCompletes ==
    /\ ctrPc # "crashed"
    /\ \A s \in ExportSplits :
          ~labelDir[s].exists => (ctrScanned[s] = {} /\ TotalOf(s) = 0)
    /\ ctrPc = "done" =>
          /\ report.overall_total = total_train_objects + total_val_objects
          /\ Len(report.progress) = Len(CLASS_NAMES)
          /\ report.verdict \in {"all_met", "continue"}

(***************************************************************************)
(* C16: in the Annotation Counter the overall count of every class is its  *)
(* train count plus its validation count; a class is reported as target    *)
(* met exactly when that sum is at least TARGET_INSTANCES_PER_CLASS, and   *)
(* "all targets met" is reported exactly when this is so for every class.  *)
(***************************************************************************)
\* the instances of a class in both splits
BothSplits(c) == DictGet(train_counts, c) + DictGet(val_counts, c)

ReportedMet(c) == \E i \in 1..Len(report.progress) :
                      report.progress[i][1] = c /\ report.progress[i][2]

C16_TargetsFromOverall ==
    ctrPc \in {"done", "crashed"} =>
        /\ \A r \in SeqRange(overall_counts) :
              /\ DOMAIN r = SeqRange(CLASS_NAMES)
              /\ \A c \in DOMAIN r : r[c] = BothSplits(c)
        /\ \A i \in 1..Len(report.overall_lines) :
              report.overall_lines[i] = <<CLASS_NAMES[i], BothSplits(CLASS_NAMES[i])>>
        /\ \A i \in 1..Len(report.progress) :
              /\ report.progress[i][1] = CLASS_NAMES[i]
              /\ report.progress[i][3] = BothSplits(CLASS_NAMES[i])
        /\ \A c \in SeqRange(CLASS_NAMES) :
              ReportedMet(c) <=> BothSplits(c) >= TARGET_INSTANCES_PER_CLASS
        /\ report.verdict = "all_met" <=>
              \A c \in SeqRange(CLASS_NAMES) : BothSplits(c) >= TARGET_INSTANCES_PER_CLASS

\* all targets are met, the one of carrot by 49 train and 1 validation instance
C16_Witness ==
    /\ ctrPc = "done"
    /\ report.verdict = "all_met"
    /\ DictGet(train_counts, "carrot") = TARGET_INSTANCES_PER_CLASS - 1
    /\ DictGet(val_counts, "carrot") = 1
    /\ DictGet(val_counts, "radish") = TARGET_INSTANCES_PER_CLASS
    /\ report.progress[1] = <<"carrot", TRUE, TARGET_INSTANCES_PER_CLASS>>

(***************************************************************************)
(* C18: no step of the Annotation Counter changes anything on disk: the    *)
(* raw-images directory, both label directories with their files and the   *)
(* output directory stay as they were.                                     *)
(***************************************************************************)
C18_CounterLeavesDiskAlone ==
    [][/\ rawExists' = rawExists
       /\ rawFiles' = rawFiles
       /\ labelDir' = labelDir
       /\ out' = out]_vars

\* the counter has ended after counting objects in both splits
C18_Witness ==
    /\ ctrPc = "done"
    /\ total_train_objects > 0
    /\ total_val_objects > 0
    /\ Cardinality(ctrScanned["train"]) = 2
    /\ out = StaleOutput
    /\ rawFiles # {}

(***************************************************************************)
(* C17: on every label file and class table, copy_and_count_annotation and *)
(* process_single_label_file make the same per-class increments: they look *)
(* at the same lines, give each line the same outcome and leave the same   *)
(* counts.                                                                 *)
(***************************************************************************)
C17_SameIncrements ==
    \A p \in SeqRange(lnPrep) : \A c \in SeqRange(lnCtr) :
        /\ p.dict = c.dict
        /\ Len(p.trace) = Len(c.log)
        /\ \A i \in 1..Len(p.trace) :
              /\ p.trace[i].outcome = c.log[i].outcome
              /\ p.trace[i].dict = c.log[i].dict

\* both functions counted the carrot of line 1 and stopped at line 2, whose
\* class id is no integer, leaving the bean of line 3 uncounted
C17_Witness ==
    /\ lnPrep # <<>> /\ lnCtr # <<>>
    /\ Len(lnFile) = 3
    /\ WellFormed(lnFile[2]) /\ ~HasClassId(lnFile[2])
    /\ lnTable = CLASS_NAMES
    /\ lnStart = EmptyDict
    /\ lnPrep[1].dict = ("carrot" :> 1)
    /\ lnCtr[1].dict = ("carrot" :> 1)
    /\ lnCtr[1].objects = 1

(***************************************************************************)
(* C19: two runs with different output roots do not interfere: however     *)
(* their steps interleave over the same inputs, neither fails and each     *)
(* ends with the output tree, the accepted and skipped counts and the      *)
(* per-class totals it has when it runs alone, and its tree stays so.      *)
(***************************************************************************)
C19_DifferentRootsDoNotInterfere ==
    rootOf[1] # rootOf[2] =>
        \A p \in Procs :
            /\ local[p].pc # "crashed"
            /\ ~local[p].hit
            /\ local[p].pc = "done" =>
                  /\ local[p].final = <<Alone>>
                  /\ trees[rootOf[p]] = Alone.out

\* both runs have ended, each in its own root, after accepting two files and
\* skipping one
C19_Witness ==
    /\ rootOf[1] # rootOf[2]
    /\ \A p \in Procs : local[p].pc = "done" /\ local[p].skipped = 1
    /\ Alone.train + Alone.val = 2
    /\ trees["data1"] = trees["data2"]
    /\ trees["data1"].yaml = {Manifest}

(***************************************************************************)
(* C20: two runs on the same output root are unsafe: the reset of one run  *)
(* removes every file and directory the other has written so far, and a    *)
(* run differs from its run alone (another tree, other counts, or a        *)
(* failure) only when such a reset hit it.                                 *)
(***************************************************************************)
\* this step is the rmtree of run p
Resets(p) == local[p].pc = "start" /\ local'[p].pc = "rmtree"

C20_SharedRootResetDestroys ==
    [][/\ \A p \in Procs : \A q \in Procs \ {p} :
             (Resets(p) /\ rootOf[p] = rootOf[q] /\ Underway(local[q])) =>
                 /\ trees'[rootOf[q]] = NoOutput
                 /\ local'[q].hit
       /\ \A q \in Procs :
             (local'[q].pc \in {"done", "crashed"} /\ local'[q].final # <<Alone>>) =>
                 (local'[q].hit /\ rootOf[1] = rootOf[2])]_vars

\* a run has ended on the shared root with the counts of its run alone, but
\* the files it copied are gone: the other run reset the root in between
C20_Witness ==
    /\ rootOf[1] = rootOf[2]
    /\ \E q \in Procs :
          /\ local[q].pc = "done"
          /\ local[q].hit
          /\ local[q].train = Alone.train /\ local[q].val = Alone.val
          /\ local[q].train + local[q].val = 2
          /\ local[q].final[1].out # Alone.out
          /\ local[q].final[1].out.images = {}

(***************************************************************************)
(* C21: what a line does to the counts is decided by its number of fields  *)
(* and by its first field alone: fewer than 5 fields is malformed, a first *)
(* field that is an integer within the table counts one instance of that   *)
(* class, whatever the geometry fields hold and however many fields follow *)
(* the fifth.                                                              *)
(***************************************************************************)
\* the outcome that the field count n and the first field decide
OutcomeFor(n, first, table) ==
    IF n < 5 THEN "malformed"
    ELSE IF ~ParseInt(first).ok THEN "raise"
    ELSE IF 0 <= ParseInt(first).val /\ ParseInt(first).val < Len(table) THEN "counted"
    ELSE "out_of_range"

\* the counts d2 follow from d1 by that outcome
CountsFor(n, first, table, d1, d2) ==
    IF OutcomeFor(n, first, table) = "counted"
    THEN OneMore(d1, d2, table[ParseInt(first).val + 1])
    ELSE d2 = d1

FirstOrNone(line) == IF FieldCount(line) = 0 THEN <<>> ELSE FirstField(line)

C21_OnlyFieldCountAndClassId ==
    /\ \A r \in SeqRange(lnPrep) : \A i \in 1..Len(r.trace) :
          /\ r.trace[i].outcome =
                 OutcomeFor(FieldCount(lnFile[i]), FirstOrNone(lnFile[i]), lnTable)
          /\ CountsFor(FieldCount(lnFile[i]), FirstOrNone(lnFile[i]), lnTable,
                       DictBefore(r.trace, i), r.trace[i].dict)
    /\ \A r \in SeqRange(lnCtr) : \A i \in 1..Len(r.log) :
          /\ r.log[i].outcome =
                 OutcomeFor(FieldCount(lnFile[i]), FirstOrNone(lnFile[i]), lnTable)
          /\ CountsFor(FieldCount(lnFile[i]), FirstOrNone(lnFile[i]), lnTable,
                       DictBefore(r.log, i), r.log[i].dict)

\* both functions have counted a radish for the line "2 bad bad bad bad bad"
C21_Witness ==
    /\ lnPrep # <<>> /\ lnCtr # <<>>
    /\ lnFile = <<MakeLine(<<(<<"2">>), (<<"b", "a", "d">>), (<<"b", "a", "d">>),
                             (<<"b", "a", "d">>), (<<"b", "a", "d">>), (<<"b", "a", "d">>)>>)>>
    /\ lnTable = CLASS_NAMES
    /\ lnStart = EmptyDict
    /\ lnPrep[1].dict = ("radish" :> 1)
    /\ lnCtr[1].dict = ("radish" :> 1)
    /\ lnPrep[1].ret

(***************************************************************************)
(* C26: process_single_label_file returns the number of increments it made *)
(* to counts_dict: at every point of the Annotation Counter the object     *)
(* total of a split is the sum of the split's per-class counts over the    *)
(* class table, and so are the totals it reports.                          *)
(***************************************************************************)
RECURSIVE SumOver(_, _)
SumOver(d, names) ==
    IF names = <<>> THEN 0 ELSE DictGet(d, Head(names)) + SumOver(d, Tail(names))

C26_TotalIsSumOfClasses ==
    /\ total_train_objects = SumOver(train_counts, CLASS_NAMES)
    /\ total_val_objects = SumOver(val_counts, CLASS_NAMES)
    /\ DOMAIN train_counts \subseteq SeqRange(CLASS_NAMES)
    /\ DOMAIN val_counts \subseteq SeqRange(CLASS_NAMES)
    /\ ctrPc \in {"done", "crashed"} =>
          /\ report.train_total = SumOver(train_counts, CLASS_NAMES)
          /\ report.val_total = SumOver(val_counts, CLASS_NAMES)

\* the counter has ended after a train file that raised on its second line and
\* one with a short line and a class id out of range: one object, one radish
C26_Witness ==
    /\ ctrPc = "done"
    /\ \E f, g \in labelDir["train"].files :
          /\ f.lines = <<ValidLine(<<"2">>), UnparsableLine, ValidLine(<<"1">>)>>
          /\ g.lines = <<ShortLine, OutOfRangeLine>>
    /\ copyFails = {}
    /\ report.train_total = 1
    /\ DictGet(train_counts, "radish") = 1

(***************************************************************************)
(* C27: each .txt file of an existing label directory is classified once,  *)
(* as accepted or as skipped, and no other file is: every turn of a loop   *)
(* for a .txt file adds one to exactly one of the counters, a turn for     *)
(* another file adds nothing, and at the end of a run accepted train +     *)
(* accepted validation + skipped is the number of .txt files.              *)
(***************************************************************************)
TxtFiles == UNION {{<<s, f.name>> : f \in {g \in ListLabels(s) : IsLabelFile(g)}} :
                      s \in ExportSplits}

Classified == train_image_count + val_image_count + skipped_image_count

C27_EveryLabelFileClassifiedOnce ==
    [][/\ \A f \in todo :
             Iterates(f) =>
                 /\ Classified' = Classified + (IF IsLabelFile(f) THEN 1 ELSE 0)
                 /\ train_image_count' >= train_image_count
                 /\ val_image_count' >= val_image_count
                 /\ skipped_image_count' >= skipped_image_count
       /\ pc' = "done" => Classified' = Cardinality(TxtFiles)]_vars

\* a run over three .txt files and a.json has accepted two files and skipped one
C27_Witness ==
    /\ pc = "done"
    /\ Cardinality(TxtFiles) = 3
    /\ \E f \in labelDir["train"].files : ~IsLabelFile(f)
    /\ train_image_count = 1
    /\ val_image_count = 1
    /\ skipped_image_count = 1

(***************************************************************************)
(* C28: the per-class totals are never rolled back: the lines of an opened *)
(* file that are counted before a failure (a class id that is no integer,  *)
(* a failed copy of the label or of the image) stay in the totals although *)
(* the file is skipped, and no step of a run lowers a total.               *)
(***************************************************************************)
C28_TotalsNeverRolledBack ==
    [][/\ \A f \in todo :
             (/\ Iterates(f) /\ IsLabelFile(f) /\ RawImagesFor(f) # {}
              /\ skipped_image_count' = skipped_image_count + 1) =>
                 \A k \in 1..Len(CLASS_NAMES) :
                     DictGet(total_objects_per_class', CLASS_NAMES[k]) =
                         DictGet(total_objects_per_class, CLASS_NAMES[k])
                             + Cardinality(InstancesIn(f.lines, k))
       /\ pc' # "start" =>
             \A c \in DOMAIN total_objects_per_class :
                 /\ c \in DOMAIN total_objects_per_class'
                 /\ total_objects_per_class'[c] >= total_objects_per_class[c]]_vars

\* a run has skipped a train file after counting its radish (its second line
\* raised) and a validation file after counting its bean (a copy failed)
C28_Witness ==
    /\ pc = "done"
    /\ train_image_count + val_image_count = 0
    /\ skipped_image_count = 2
    /\ copyFails # {}
    /\ \E f \in labelDir["train"].files :
          f.lines = <<ValidLine(<<"2">>), UnparsableLine>> /\ RawImagesFor(f) # {}
    /\ \E f \in labelDir["validation"].files : f.lines = <<ValidLine(<<"1">>)>>
    /\ summary[1].per_class = << <<"carrot", 0>>, <<"bean", 1>>, <<"radish", 1>> >>

(***************************************************************************)
(* C29: the Dataset Preparer resets the output directory before it reads   *)
(* the raw-images directory: a run that aborts because the raw-images      *)
(* directory is missing has already discarded the previous output tree,    *)
(* and leaves the output root holding only the four empty split            *)
(* subdirectories and no manifest.                                         *)
(***************************************************************************)
FourEmptyDirs ==
    [exists |-> TRUE,
     dirs   |-> {<<"train", "images">>, <<"train", "labels">>,
                 <<"val", "images">>, <<"val", "labels">>},
     labels |-> {}, images |-> {}, yaml |-> {}]

C29_ResetBeforeRawListing ==
    /\ pc = "clean" => out = FourEmptyDirs
    /\ pc = "aborted" => ~rawExists /\ out = FourEmptyDirs

C29_Witness ==
    /\ pc = "aborted"
    /\ previousOutput = StaleOutput
    /\ out = FourEmptyDirs
    /\ out # previousOutput

(***************************************************************************)
(* Vocabulary of the properties of predict_with_retry                      *)
(***************************************************************************)
\* the POST requests a call with this max_retries may make
Budget(m) == IF m + 1 > 0 THEN m + 1 ELSE 0

\* a JSON object that has the key "predictions"
HasPredictionsKey(b) == b.type = "object" /\ "predictions" \in b.members

\* the reply is a 200 whose body is such an object
GoodReply(r) == r.kind = "response" /\ r.status = 200 /\ HasPredictionsKey(r.body)

\* a 502, a 504 or a request timeout
Retryable(r) ==
    \/ r.kind = "response" /\ r.status \in {502, 504}
    \/ r.kind = "exception" /\ "Timeout" \in r.exc.classes

(***************************************************************************)
(* C22: predict_with_retry always terminates after at most max_retries + 1 *)
(* POST requests to /predict (3 with the default max_retries = 2), and it  *)
(* returns a dictionary only when some attempt received status 200 with a  *)
(* body containing the key "predictions"; in every other outcome it        *)
(* returns None.                                                           *)
(***************************************************************************)
C22_DictOrNoneWithinBudget ==
    /\ Len(sent) <= Budget(max_retries)
    /\ max_retries = DefaultMaxRetries => Len(sent) <= 3
    /\ rtPc = "over" =>
          /\ rtResult[1].kind = "return"
          /\ rtResult[1].value # <<>> =>
                /\ HasPredictionsKey(rtResult[1].value[1])
                /\ \E i \in 1..Len(sent) :
                      GoodReply(sent[i].reply) /\ sent[i].reply.body = rtResult[1].value[1]

(***************************************************************************)
(* C30: predict_with_retry issues a further request only after a 502       *)
(* response, a 504 response or a request timeout on an attempt that is not *)
(* the last; any other status code, a connection error, any other request  *)
(* exception, or a 200 response without the key "predictions" ends the     *)
(* call at once with None and no further request.                          *)
(***************************************************************************)
C30_RetryOnlyAfterColdStart ==
    \A i \in 1..Len(sent) :
        /\ i < Len(sent) => Retryable(sent[i].reply) /\ sent[i].attempt < max_retries
        /\ ~Retryable(sent[i].reply) /\ ~GoodReply(sent[i].reply) =>
              /\ i = Len(sent)
              /\ rtPc = "over"
              /\ rtResult = <<ReturnNone>>

(***************************************************************************)
(* C24: the image-flattening script gives every source image a new unique  *)
(* file name <category>_<split>_<filename>: two distinct source files      *)
(* (differing in split, category or file name) never map to the same       *)
(* target name, so no copy into raw_images/ overwrites another.            *)
(***************************************************************************)
C24_TargetNamesUnique ==
    /\ \A c \in copies : \A d \in copies : c.from # d.from => c.to # d.to
    /\ \A c \in copies : ~c.over

(***************************************************************************)
(* Vocabulary of the properties of POST /predict                           *)
(***************************************************************************)
\* the upload has an allowed extension and an image content type
ImageUpload(req) ==
    /\ req.filename # <<>>
    /\ Lower(req.filename[1][2]) \in {".jpg", ".jpeg", ".png", ".bmp", ".tiff", ".webp"}
    /\ req.content_type # <<>>
    /\ req.content_type[1][1] = "image"

\* some detection has a class id that is no index of CLASS_NAMES
UnknownClass(req) ==
    \E i \in 1..Len(req.inference.cls) : req.inference.cls[i] >= Len(ApiClassNames)

\* the first thing that goes wrong with a request, "none" when nothing does
FailureOf(req) ==
    IF ~ImageUpload(req) THEN "rejected"
    ELSE IF ~req.readable THEN "unreadable"
    ELSE IF ~req.decodable THEN "undecodable"
    ELSE IF req.inference.raises THEN "inference"
    ELSE IF UnknownClass(req) THEN "formatting"
    ELSE "none"

(***************************************************************************)
(* C25: POST /predict maps every failure to an HTTP error and never to a   *)
(* 200 response: an upload rejected by validate_image, an unreadable       *)
(* upload or an undecodable image gives 400; a model inference failure     *)
(* gives 500; an HTTPException raised inside the handler is re-raised with *)
(* its own status and never rewrapped; any other exception (a class id     *)
(* outside CLASS_NAMES while formatting) gives 500.                        *)
(***************************************************************************)
C25_FailuresBecomeHttpErrors ==
    apiPc = "responded" =>
        /\ response[1].status = 200 <=> FailureOf(request) = "none"
        /\ FailureOf(request) \in {"rejected", "unreadable", "undecodable"} =>
              response[1].status = 400
        /\ FailureOf(request) \in {"inference", "formatting"} => response[1].status = 500
        /\ FailureOf(request) # "none" => apiLocal.raised # <<>>
        /\ apiLocal.raised # <<>> /\ apiLocal.raised[1].type = "HTTPException" =>
              /\ response[1].status = apiLocal.raised[1].status_code
              /\ response[1].detail = apiLocal.raised[1].detail
        /\ apiLocal.raised # <<>> /\ apiLocal.raised[1].type # "HTTPException" =>
              /\ response[1].status = 500
              /\ response[1].detail = "An unexpected error occurred during prediction."

C25_Witness ==
    /\ apiPc = "responded"
    /\ FailureOf(request) = "undecodable"
    /\ apiLocal.raised # <<>>
    /\ apiLocal.raised[1].type = "HTTPException"
    /\ response[1].status = 400
    /\ response[1].detail = "Uploaded file is not a valid image format."

(***************************************************************************)
(* C23: in the front-end session state, uploading a new image resets the   *)
(* stored predictions and visibility toggles, so after any sequence of     *)
(* uploads and detections the predictions drawn in the results view were   *)
(* computed from the image currently stored as original_image, never from  *)
(* a previously uploaded image.                                            *)
(***************************************************************************)
C23_DrawnFromCurrentImage ==
    /\ shown # <<>> => shown[1].computed_from = shown[1].image
    /\ predictions # <<>> => predicted_from = original_image
====
